---- MODULE Spec2Model ----
(***************************************************************************)
(* Deployment lifecycle of the BentoML deployment coordinator:             *)
(* DockerDeployment.deploy_model and TmuxDeployment.deploy_model, with the *)
(* start/stop helpers they call, over the backend's native listing         *)
(* (containers with labels, tmux sessions with environment variables).     *)
(* One request runs at a time (serialized by the caller); the outcome of   *)
(* every external call (port probe, repository lookup, image build,        *)
(* container run, health probe, volume deletion, conda) is chosen by the   *)
(* environment.                                                            *)
(***************************************************************************)
EXTENDS Integers, Sequences, FiniteSets, TLC

\* ---------------------------------------------------------------- bounds
\* Number of deploy requests of one behaviour; the n-th request gets suffix n.
MaxDeploys == 3
\* Number of instances in a listing handed to _stop_model_server on its own.
MaxInstances == 2
\* Largest retries argument of a health probe.
MaxRetries == 3

\* ---------------------------------------------------------------- inputs
Versions == {"1", "2"}
Stages == {"Staging", "Production"}
STANDARD_PORT == 5000
Ports == {STANDARD_PORT, STANDARD_PORT + 1}
RuntimeEnv == {"docker", "tmux"}

\* The requests of a behaviour: every version, stage and port of model A, and
\* one deployment of a second model B that shares a version, a stage and a
\* port with A's.
Requests ==
    [name : {"A"}, version : Versions, stage : Stages, port : Ports]
    \cup [name : {"B"}, version : {"1"}, stage : {"Staging"}, port : {STANDARD_PORT}]

\* config.yaml 'env_vars': the variables exported into every tmux session.
\* Either none that matter, or the two the session listing asks for.
EnvVarsConfigs == {{}, {"model_port", "model_workers"}}

VARIABLES
    runtime_env,   \* backend every request of this behaviour selects
    env_vars,      \* keys of config 'env_vars'
    containers,    \* docker: all containers (running and exited)
    images,        \* docker: image tags
    volumes,       \* docker: shared volume directories, by deployment suffix
    sessions,      \* tmux: sessions
    envs,          \* tmux: conda environments, by suffix
    pc,            \* position of the running deploy_model call
    self,          \* the deployment object of the running call, with its args
    stopped,       \* local stopped_containers / stopped_sessions
    response,      \* what the last deploy_model call returned or raised
    deploys,       \* number of requests so far
    before,        \* history: the instances as they were at the call's start
    stoppedOld,    \* history: ids of the instances stopped by the stop-old step
    justRemoved,   \* history: ids removed by the last step
    sequence,      \* history: the (name, stage) every call so far deployed
                   \* successfully, empty before the first, "mixed" otherwise
    stop_args,     \* arguments of a _stop_model_server call applied on its own
    removed,       \* the removed (killed) list such a call returned
    undeployed,    \* history: <<name, version, 1>> after a successful undeploy,
                   \* <<name, version, 2>> after the undeploy that follows it
    probe,         \* one call of _is_service_healthy: its argument, the
                   \* endpoint it meets, the attempts made and the result
    port_probe,    \* one call of _is_port_in_use, likewise
    dags,          \* airflow: the files of dag_location, <<deployment name, extension>>
    commands,      \* airflow: the 'dags delete' commands of the last call, per dag
    handed,        \* what the last handler passed to AirflowDeployment.undeploy_model
    report,        \* what GET /running answered, and the backends that were unavailable
    targets,       \* prometheus: the entries of the targets file
    prometheus,    \* the PrometheusDeployment object of each operation under way
    lost,          \* history: entries a write dropped that it was not aimed at
    racing,        \* the deploy_model call of each of two requests served at once
    named,         \* the identities constructed so far, one record per constructor call
    tenancy,       \* string-level instances, job files and targets of several models, and what the last operation took away
    DEFAULT_ARGS,  \* models.DEFAULT_ARGS, the module-level dict of start arguments
    started,       \* history: the args of every start request and the args its deploy_model was called with
    removal        \* a remove_target call on a list of targets: the list before, the arguments, the list after

vars ==
    <<runtime_env, env_vars, containers, images, volumes, sessions, envs,
      pc, self, stopped, response, deploys, before, stoppedOld, justRemoved,
      sequence, stop_args, removed, undeployed, probe, port_probe, dags,
      commands, handed, report, targets, prometheus, lost, racing, named,
      tenancy, DEFAULT_ARGS, started, removal>>

NoSelf == [name |-> "", version |-> "", stage |-> "", suffix |-> 0, port |-> 0]
NoProbe == [retries |-> 0, endpoint |-> << >>, total |-> 0, attempts |-> 0,
            result |-> "none"]
NoPortProbe == [port |-> 0, retry |-> 0, bound |-> << >>, attempts |-> 0,
                result |-> "none"]
NoCommands == [issued |-> << >>, warned |-> {}]
NoHandOff == [called |-> FALSE, containers |-> << >>]
NoReport == [raised |-> "", entries |-> << >>, unavailable |-> {}]
\* Two requests served at the same time.
Operations == {1, 2}
NoOperation == [pc |-> "idle", me |-> NoSelf, targets |-> {}, stale |-> FALSE]
NoStopArgs == [find_by |-> {}, remove |-> FALSE]

NoResponse ==
    [kind |-> "none", status_code |-> 0, detail |-> "", logs |-> FALSE, at |-> ""]

\* Nothing deployed and nothing taken away.
NoTenancy == [items |-> {}, removed |-> {}, me |-> NoSelf]

\* No remove_target call yet.
NoRemoval ==
    [done |-> FALSE, before |-> << >>, after |-> << >>, me |-> NoSelf,
     by |-> {}, name |-> << >>]

\* A deploy_model call that has not begun.
NoRacer == [pc |-> "ready", me |-> NoSelf, stopped |-> << >>,
            response |-> NoResponse]

\* What deploy_model returns or raises: the exception class (or "return"), the
\* HTTP status it maps to, the detail text, whether the detail carries the
\* captured logs of the failed instance, and the step that produced it.
Resp(kind, status_code, detail, logs, at) ==
    [kind |-> kind, status_code |-> status_code, detail |-> detail, logs |-> logs,
     at |-> at]

\* ------------------------------------------------------------- utilities
\* app/utils.py _distinct: first occurrence of every value of obj[attr], in order.
RECURSIVE DistinctInto(_, _, _)
DistinctInto(obj_list, attr, distinct_obj_list) ==
    IF obj_list = << >> THEN distinct_obj_list
    ELSE CHOOSE result \in
           {DistinctInto(Tail(obj_list), attr,
                         IF \E i \in 1..Len(seen) : seen[i][attr] = obj[attr]
                         THEN seen ELSE Append(seen, obj)) :
              obj \in {Head(obj_list)}, seen \in {distinct_obj_list}} : TRUE

\* A list handed on as it is, repetitions included.
Undistinct(obj_list, attr) == obj_list

Distinct(obj_list, attr) == DistinctInto(obj_list, attr, << >>)

\* The backend's listing order: newest (largest suffix) first.
RECURSIVE ListNewestFirst(_)
ListNewestFirst(S) ==
    IF S = {} THEN << >>
    ELSE CHOOSE result \in
           {<<c>> \o ListNewestFirst(S \ {c}) :
              c \in {x \in S : \A y \in S : y.id <= x.id}} : TRUE

SeqToSet(s) == {s[i] : i \in 1..Len(s)}

\* {prefix}_{name_clean}_{stage_clean}_{suffix}
DeploymentName(name, stage, suffix) == <<"bentoml", name, stage, suffix>>

\* Base image and the "fix" layer built on it.
ImageTags(suffix) == {<<suffix, "tmp">>, <<suffix, "fixed">>}

\* ------------------------------------------------------- container backend
\* A container as docker lists it: labels are the only record of what it serves.
Container(me) ==
    [id |-> me.suffix,
     name |-> DeploymentName(me.name, me.stage, me.suffix),
     labels |-> [name |-> me.name, version |-> me.version,
                 stage |-> me.stage, args |-> me.port],
     status |-> "running",
     healthy |-> FALSE]

\* A listing that reports a container as soon as one label of the filter fits.
ContainersListAnyLabel(cs, labels) ==
    ListNewestFirst({c \in cs : \E k \in DOMAIN labels : c.labels[k] = labels[k]})

\* docker_client.containers.list(all=True, filters={'label': [...]}).
ContainersList(cs, labels) ==
    ListNewestFirst({c \in cs : \A k \in DOMAIN labels : c.labels[k] = labels[k]})

\* The containers _stop_model_server looks at: by version, then by stage.
DockerFound(cs, me, find_by) ==
    (IF "version" \in find_by
     THEN ContainersList(cs, [name |-> me.name, version |-> me.version])
     ELSE << >>)
    \o
    (IF "stage" \in find_by
     THEN ContainersList(cs, [name |-> me.name, stage |-> me.stage])
     ELSE << >>)

\* container.stop(timeout=10)
ContainerStop(cs, container) ==
    {IF c.id = container.id THEN [c EXCEPT !.status = "exited", !.healthy = FALSE]
     ELSE c : c \in cs}

\* container.remove()
ContainerRemove(cs, container) == {c \in cs : c.id # container.id}

\* container.start(), and whether it then answers /healthz
ContainerStart(cs, container, healthy) ==
    {IF c.id = container.id THEN [c EXCEPT !.status = "running", !.healthy = healthy]
     ELSE c : c \in cs}

\* A loop that removes what it finds without stopping it.
RECURSIVE RemoveWithoutStop(_, _, _, _, _)
RemoveWithoutStop(todo, acc, remove_container, exclude, failAt) ==
    IF todo = << >> \/ acc.raised # "" THEN acc
    ELSE
      LET container == Head(todo)
          a2 == [acc EXCEPT !.containers = ContainerRemove(@, container),
                            !.images = @ \ ImageTags(container.id),
                            !.removals = @ + 1]
          a3 == IF a2.removals = failAt
                THEN [a2 EXCEPT !.raised = "Could not delete shared volume"]
                ELSE [a2 EXCEPT !.volumes = @ \ {container.id},
                                !.removed_containers = Append(@, container)]
      IN IF container.name = exclude
         THEN RemoveWithoutStop(Tail(todo), acc, remove_container, exclude, failAt)
         ELSE RemoveWithoutStop(Tail(todo), IF remove_container THEN a3 ELSE acc,
                                remove_container, exclude, failAt)

\* The loop of _stop_model_server over the distinct containers. acc carries
\* the backend state and the two result lists; failAt > 0 is the removal at
\* which deleting the shared volume fails (the HTTPException leaves the loop).
RECURSIVE DockerStopLoop(_, _, _, _, _)
DockerStopLoop(todo, acc, remove_container, exclude, failAt) ==
    IF todo = << >> \/ acc.raised # "" THEN acc
    ELSE
      LET container == Head(todo)
          a1 == IF container.status = "running"
                THEN [acc EXCEPT !.containers = ContainerStop(@, container),
                                 !.stopped_containers = Append(@, container)]
                ELSE acc
          a2 == [a1 EXCEPT !.containers = ContainerRemove(@, container),
                           !.images = @ \ ImageTags(container.id),
                           !.removals = @ + 1]
          a3 == IF a2.removals = failAt
                THEN [a2 EXCEPT !.raised = "Could not delete shared volume"]
                ELSE [a2 EXCEPT !.volumes = @ \ {container.id},
                                !.removed_containers = Append(@, container)]
      IN IF container.name = exclude
         THEN DockerStopLoop(Tail(todo), acc, remove_container, exclude, failAt)
         ELSE DockerStopLoop(Tail(todo), IF remove_container THEN a3 ELSE a1,
                             remove_container, exclude, failAt)

\* DockerDeployment._stop_model_server
DockerStopModelServer(dk, me, find_by, remove_container, exclude, failAt) ==
    CHOOSE result \in
      {DockerStopLoop(found,
                      [containers |-> dk.containers, images |-> dk.images,
                       volumes |-> dk.volumes, stopped_containers |-> << >>,
                       removed_containers |-> << >>, removals |-> 0, raised |-> ""],
                      remove_container, exclude, failAt) :
         found \in {Distinct(DockerFound(dk.containers, me, find_by), "id")}} : TRUE

\* How many containers a removing call will try to remove.
DockerTargets(cs, me, find_by, exclude) ==
    Cardinality({c \in SeqToSet(DockerFound(cs, me, find_by)) : c.name # exclude})

\* DockerDeployment._start_model_server(existing_containers=[...]):
\* start every one, then probe every one; a failed probe is only logged.
RECURSIVE DockerRestart(_, _, _)
DockerRestart(cs, existing_containers, healthyIds) ==
    IF existing_containers = << >> THEN cs
    ELSE LET c == Head(existing_containers)
         IN DockerRestart(ContainerStart(cs, c, c.id \in healthyIds),
                          Tail(existing_containers), healthyIds)

\* DockerDeployment._start_model_server(args), up to containers.run. outcome
\* is the first external call that fails, or "ok".
StartOutcomes ==
    {"model_not_found", "build_error_base", "build_error_fix",
     "volume_error", "run_error", "ok"}

DockerStartModelServer(dk, me, outcome) ==
    LET built == CASE outcome \in {"model_not_found", "build_error_base"} -> {}
                   [] outcome = "build_error_fix" -> {<<me.suffix, "tmp">>}
                   [] OTHER -> ImageTags(me.suffix)
        vol == IF outcome \in {"run_error", "ok"} THEN {me.suffix} ELSE {}
        run == IF outcome = "ok" THEN {Container(me)} ELSE {}
    IN [containers |-> dk.containers \cup run,
        images |-> dk.images \cup built,
        volumes |-> dk.volumes \cup vol]

StartError(outcome, at) == Resp("HTTPException", 500, outcome, FALSE, at)

\* A port probe that never returns.
NoAnswer(port) == {}

\* A healthy running instance serves the port.
PortHeld(cs, ss, port) ==
    \/ \E c \in cs : c.status = "running" /\ c.healthy /\ c.labels.args = port
    \/ \E s \in ss :
         /\ s.attached_pane.status = "running" /\ s.attached_pane.healthy
         /\ s.environment["args"] = port

\* _is_port_in_use(port, 4): a served port is in use; any other port may be
\* held by a process the coordinator does not know.
PortInUseOutcomes(port) ==
    IF PortHeld(containers, sessions, port) THEN {TRUE} ELSE {TRUE, FALSE}

Docker == [containers |-> containers, images |-> images, volumes |-> volumes]

Ids(S) == {c.id : c \in S}

\* What the backend's listing says of every instance, in one shape: the
\* labels of a container, the environment of a session.
InstanceOfContainer(c) ==
    [id |-> c.id, name |-> c.labels.name, version |-> c.labels.version,
     stage |-> c.labels.stage, port |-> c.labels.args,
     running |-> c.status = "running", healthy |-> c.healthy]

InstanceOfSession(s) ==
    [id |-> s.id, name |-> s.environment["model_name"],
     version |-> s.environment["model_version"],
     stage |-> s.environment["model_stage"], port |-> s.environment["args"],
     running |-> s.attached_pane.status = "running",
     healthy |-> s.attached_pane.healthy]

Instances ==
    {InstanceOfContainer(c) : c \in containers}
    \cup {InstanceOfSession(s) : s \in sessions}

\* History of the calls so far: all successful deploys of one (name, stage).
NextSequence(seq, me, ok) ==
    IF ok /\ seq \in {<< >>, <<me.name, me.stage>>}
    THEN <<me.name, me.stage>>
    ELSE <<"mixed">>

\* Other arguments the calls could have been given: a stop-old step that
\* removes, a finalizing step that looks at the stage only.
StopOldRemoving == TRUE
FinalizeByStageOnly == {"stage"}

\* A stop-old step that looks at the version only.
VersionOnly == {"version"}

\* The arguments of the two _stop_model_server calls of
\* DockerDeployment.deploy_model.
DockerStopOldFindBy == {"version", "stage"}
DockerStopOldRemove == FALSE
DockerFinalizeFindBy == {"version", "stage"}
DockerFinalizeRemove == TRUE

\* Deployment.__init__: the request's identity, the suffix drawn for this
\* attempt, and the args deploy_model is called with.
NewDeployment(model_content, suffix) ==
    [name |-> model_content.name, version |-> model_content.version,
     stage |-> model_content.stage, suffix |-> suffix, port |-> model_content.port]

\* ------------------------------------------------------------- container deploy
\* A request arrives: the constructor (which draws the suffix), then the first
\* statement of deploy_model, the stop of what is there.
DockerBegin ==
    /\ pc = "idle" /\ runtime_env = "docker" /\ deploys < MaxDeploys
    /\ \E model_content \in Requests :
         \E me \in {NewDeployment(model_content, deploys + 1)} :
         \E r \in {DockerStopModelServer(Docker, me, DockerStopOldFindBy,
                                        DockerStopOldRemove, << >>, 0)} :
            /\ self' = me
            /\ containers' = r.containers
            /\ images' = r.images
            /\ volumes' = r.volumes
            /\ stopped' = r.stopped_containers
            /\ stoppedOld' = Ids(SeqToSet(r.stopped_containers))
            /\ justRemoved' = Ids(containers) \ Ids(r.containers)
    /\ before' = Instances
    /\ deploys' = deploys + 1
    /\ pc' = "port_check"
    /\ response' = NoResponse
    /\ UNCHANGED <<removal, started, DEFAULT_ARGS, tenancy, named, racing,
                   lost, prometheus, targets, report, handed, commands, dags,
                   port_probe, probe, undeployed, stop_args, removed,
                   runtime_env, env_vars, sessions, envs, sequence>>

\* Port in use: restart what was stopped and raise 502.
DockerPortInUse ==
    /\ pc = "port_check" /\ runtime_env = "docker"
    /\ TRUE \in PortInUseOutcomes(self.port)
    /\ \E healthyIds \in SUBSET Ids(SeqToSet(stopped)) :
         containers' = DockerRestart(containers, stopped, healthyIds)
    /\ response' = Resp("HTTPException", 502, "Port is already in use", FALSE, pc)
    /\ pc' = "idle"
    /\ justRemoved' = {}
    /\ sequence' = NextSequence(sequence, self, FALSE)
    /\ UNCHANGED <<removal, started, DEFAULT_ARGS, tenancy, named, racing,
                   lost, prometheus, targets, report, handed, commands, dags,
                   port_probe, probe, undeployed, stop_args, removed,
                   runtime_env, env_vars, images, volumes, sessions, envs,
                   self, stopped, deploys, before, stoppedOld>>

DockerPortFree ==
    /\ pc = "port_check" /\ runtime_env = "docker"
    /\ FALSE \in PortInUseOutcomes(self.port)
    /\ pc' = "start_new"
    /\ UNCHANGED <<removal, started, DEFAULT_ARGS, tenancy, named, racing,
                   lost, prometheus, targets, report, handed, commands, dags,
                   port_probe, probe, undeployed, stop_args, removed,
                   runtime_env, env_vars, containers, images, volumes,
                   sessions, envs, self, stopped, response, deploys, before,
                   stoppedOld, justRemoved, sequence>>

\* _start_model_server(args) up to containers.run; any failure is raised as is.
DockerStartNew ==
    /\ pc = "start_new" /\ runtime_env = "docker"
    /\ \E outcome \in StartOutcomes :
         \E r \in {DockerStartModelServer(Docker, self, outcome)} :
            /\ containers' = r.containers
            /\ images' = r.images
            /\ volumes' = r.volumes
            /\ pc' = IF outcome = "ok" THEN "health_check" ELSE "idle"
            /\ response' = IF outcome = "ok" THEN response ELSE StartError(outcome, pc)
            /\ sequence' = IF outcome = "ok" THEN sequence
                           ELSE NextSequence(sequence, self, FALSE)
    /\ justRemoved' = {}
    /\ UNCHANGED <<removal, started, DEFAULT_ARGS, tenancy, named, racing,
                   lost, prometheus, targets, report, handed, commands, dags,
                   port_probe, probe, undeployed, stop_args, removed,
                   runtime_env, env_vars, sessions, envs, self, stopped,
                   deploys, before, stoppedOld>>

\* _is_service_healthy(port, 20) of the new container returns True.
DockerHealthy ==
    /\ pc = "health_check" /\ runtime_env = "docker"
    /\ containers' = ContainerStart(containers, Container(self), TRUE)
    /\ pc' = "finalize"
    /\ justRemoved' = {}
    /\ UNCHANGED <<removal, started, DEFAULT_ARGS, tenancy, named, racing,
                   lost, prometheus, targets, report, handed, commands, dags,
                   port_probe, probe, undeployed, stop_args, removed,
                   runtime_env, env_vars, images, volumes, sessions, envs,
                   self, stopped, response, deploys, before, stoppedOld,
                   sequence>>

\* It returns False: take the logs, stop and remove the new container, delete
\* its volume (which may itself fail), raise 500 with the logs.
DockerUnhealthy ==
    /\ pc = "health_check" /\ runtime_env = "docker"
    /\ containers' = ContainerRemove(containers, Container(self))
    /\ \E volumeFails \in BOOLEAN :
         /\ volumes' = IF volumeFails THEN volumes ELSE volumes \ {self.suffix}
         /\ response' = IF volumeFails
                        THEN StartError("Could not delete shared volume", pc)
                        ELSE Resp("HTTPException", 500, "Could not deploy service",
                                  TRUE, pc)
    /\ pc' = "idle"
    /\ justRemoved' = {self.suffix}
    /\ sequence' = NextSequence(sequence, self, FALSE)
    /\ UNCHANGED <<removal, started, DEFAULT_ARGS, tenancy, named, racing,
                   lost, prometheus, targets, report, handed, commands, dags,
                   port_probe, probe, undeployed, stop_args, removed,
                   runtime_env, env_vars, images, sessions, envs, self,
                   stopped, deploys, before, stoppedOld>>

\* The second _stop_model_server: stop and remove, the new container excluded.
DockerFinalize ==
    /\ pc = "finalize" /\ runtime_env = "docker"
    /\ \E failAt \in 0..DockerTargets(containers, self, DockerFinalizeFindBy,
                                      Container(self).name) :
         \E r \in {DockerStopModelServer(Docker, self, DockerFinalizeFindBy,
                                        DockerFinalizeRemove, Container(self).name,
                                        failAt)} :
            /\ containers' = r.containers
            /\ images' = r.images
            /\ volumes' = r.volumes
            /\ justRemoved' = Ids(containers) \ Ids(r.containers)
            /\ response' = IF r.raised # "" THEN StartError(r.raised, pc)
                           ELSE Resp("return", 200, "deployed", FALSE, pc)
            /\ sequence' = NextSequence(sequence, self, r.raised = "")
    /\ pc' = "idle"
    /\ UNCHANGED <<removal, started, DEFAULT_ARGS, tenancy, named, racing,
                   lost, prometheus, targets, report, handed, commands, dags,
                   port_probe, probe, undeployed, stop_args, removed,
                   runtime_env, env_vars, sessions, envs, self, stopped,
                   deploys, before, stoppedOld>>

\* --------------------------------------------------------- session backend
None == "None"

\* The environment _start_model_server sets in a new session: config
\* 'env_vars' first, then the five variables of the deployment.
SessionEnvironment(me) ==
    [k \in env_vars \cup {"model_name", "model_version", "model_stage",
                          "model_conda_prefix", "args"} |->
        CASE k = "model_name" -> me.name
          [] k = "model_version" -> me.version
          [] k = "model_stage" -> me.stage
          [] k = "model_conda_prefix" -> DeploymentName(me.name, me.stage, me.suffix)
          [] k = "args" -> me.port
          [] OTHER -> "set"]

\* server.new_session(session_name=self.session_name) with its environment;
\* the pane is at the shell prompt.
Session(me) ==
    [id |-> me.suffix,
     name |-> DeploymentName(me.name, me.stage, me.suffix),
     environment |-> SessionEnvironment(me),
     attached_pane |-> [status |-> "exited", healthy |-> FALSE, conda |-> << >>]]

\* session.show_environment(name)
ShowEnvironment(session, k) ==
    IF k \in DOMAIN session.environment THEN session.environment[k] ELSE None

\* session_name.startswith(session_name_start)
StartsWith(session_name, session_name_start) ==
    /\ Len(session_name) >= Len(session_name_start)
    /\ SubSeq(session_name, 1, Len(session_name_start)) = session_name_start

\* The labels get_running_models requires of a session it reports.
ListingLabels == {"model_name", "model_version", "model_stage", "model_port",
                  "model_workers"}

\* TmuxDeployment.get_running_models(..., return_only_sessions=True)
GetRunningModels(ss, name, version, session_name_start) ==
    ListNewestFirst(
      {session \in ss :
         /\ session.name[1] = "bentoml"
         /\ session_name_start = None \/ StartsWith(session.name, session_name_start)
         /\ name = None \/ ShowEnvironment(session, "model_name") = name
         /\ version = None \/ ShowEnvironment(session, "model_version") = version
         /\ \A label \in ListingLabels : ShowEnvironment(session, label) # None})

\* session_name_general
SessionNameGeneral(me) == <<"bentoml", me.name, me.stage>>

\* The sessions _stop_model_server looks at: by version, then by name prefix.
TmuxFound(ss, me, find_by) ==
    (IF "version" \in find_by
     THEN GetRunningModels(ss, me.name, me.version, None)
     ELSE << >>)
    \o
    (IF "stage" \in find_by
     THEN GetRunningModels(ss, None, None, SessionNameGeneral(me))
     ELSE << >>)

\* What _stop_model_server keeps of a session it stopped: a dict.
StoppedSession(session) ==
    [used_model |-> ShowEnvironment(session, "model_name"),
     used_version |-> ShowEnvironment(session, "model_version"),
     used_conda_prefix |-> ShowEnvironment(session, "model_conda_prefix"),
     used_args |-> ShowEnvironment(session, "args")]

\* pane.send_keys('C-c'): whatever runs in the pane ends.
SendCtrlC(ss, session) ==
    {IF s.id = session.id
     THEN [s EXCEPT !.attached_pane.status = "exited", !.attached_pane.healthy = FALSE]
     ELSE s : s \in ss}

\* session.kill_session()
KillSession(ss, session) == {s \in ss : s.id # session.id}

\* The loop of TmuxDeployment._stop_model_server.
RECURSIVE TmuxStopLoop(_, _, _, _)
TmuxStopLoop(todo, acc, kill_session, exclude) ==
    IF todo = << >> THEN acc
    ELSE
      LET session == Head(todo)
          a1 == [acc EXCEPT !.sessions = SendCtrlC(@, session),
                            !.stopped_sessions = Append(@, StoppedSession(session)),
                            !.ids = @ \cup {session.id}]
          a2 == IF kill_session
                THEN [a1 EXCEPT !.sessions = KillSession(@, session)]
                ELSE a1
      IN TmuxStopLoop(Tail(todo), IF session.name = exclude THEN acc ELSE a2,
                      kill_session, exclude)

\* TmuxDeployment._stop_model_server; ids is the history of what it stopped.
TmuxStopModelServer(ss, me, find_by, kill_session, exclude) ==
    CHOOSE result \in
      {TmuxStopLoop(found,
                    [sessions |-> ss, stopped_sessions |-> << >>, ids |-> {}],
                    kill_session, exclude) :
         found \in {Distinct(TmuxFound(ss, me, find_by), "name")}} : TRUE

\* TmuxDeployment._delete_env_if_exists: the given prefix if conda lists it,
\* otherwise every environment of this model and stage but the excluded one.
DeleteEnvIfExists(es, me, exclude, specific_prefix) ==
    LET found_envs ==
          IF specific_prefix # None /\ specific_prefix \in es
          THEN {specific_prefix}
          ELSE {env \in es : /\ StartsWith(env, SessionNameGeneral(me))
                             /\ (exclude = << >> \/ env # exclude)}
    IN es \ found_envs

\* _create_env_from_model: the repository lookup, then conda env create with
\* a 240 s timeout. Only a negative return code is treated as a failure.
CreateEnvOutcomes == {"model_not_found", "timeout", "killed", "nonzero", "ok"}

CreateEnvRaises(outcome) == outcome \in {"model_not_found", "timeout", "killed"}

CreateEnvError(outcome) ==
    Resp(CASE outcome = "model_not_found" -> "HTTPException"
           [] outcome = "timeout" -> "TimeoutExpired"
           [] OTHER -> "AttributeError",
         500, outcome, FALSE, "provisioning")

\* A stop-old step that also looks at the stage.
StopOldByVersionAndStage == {"version", "stage"}

\* The arguments of the two _stop_model_server calls of
\* TmuxDeployment.deploy_model.
TmuxStopOldFindBy == {"version"}
TmuxStopOldKill == FALSE
TmuxFinalizeFindBy == {"stage", "version"}
TmuxFinalizeKill == TRUE

\* pane.send_keys: conda activate self.prefix, then bentoml serve-gunicorn
\* with the session's own model, version and args.
PaneServe(ss, me, session) ==
    {IF s.id = session.id
     THEN [s EXCEPT !.attached_pane =
             [status |-> "running", healthy |-> FALSE,
              conda |-> DeploymentName(me.name, me.stage, me.suffix)]]
     ELSE s : s \in ss}

\* _launch_gunicorn_in_session(session, raise_error): activate self.prefix,
\* serve what the session's environment names, probe it; an unhealthy session
\* is killed. It reads session.attached_pane first, which a dict does not have.
LaunchGunicornInSession(ss, me, session, raise_error, healthy) ==
    IF "attached_pane" \notin DOMAIN session
    THEN [sessions |-> ss, raised |-> "AttributeError"]
    ELSE IF healthy
    THEN [sessions |->
            {IF s.id = session.id THEN [s EXCEPT !.attached_pane.healthy = TRUE]
             ELSE s : s \in PaneServe(ss, me, session)},
          raised |-> ""]
    ELSE [sessions |-> KillSession(ss, session),
          raised |-> IF raise_error THEN "HTTPException" ELSE ""]

\* _start_model_server(existing_sessions=[...], raise_error): relaunch each.
RECURSIVE TmuxRestart(_, _, _, _, _)
TmuxRestart(ss, me, existing_sessions, raise_error, healthy) ==
    IF existing_sessions = << >> THEN [sessions |-> ss, raised |-> ""]
    ELSE LET r == LaunchGunicornInSession(ss, me, Head(existing_sessions),
                                          raise_error, healthy)
         IN IF r.raised # "" THEN r
            ELSE TmuxRestart(r.sessions, me, Tail(existing_sessions),
                             raise_error, healthy)

\* The envs of the sessions the second stop returned, deleted one by one.
RECURSIVE DeleteEnvsOf(_, _, _)
DeleteEnvsOf(es, me, stopped_sessions) ==
    IF stopped_sessions = << >> THEN es
    ELSE DeleteEnvsOf(
           DeleteEnvIfExists(es, me, DeploymentName(me.name, me.stage, me.suffix),
                             Head(stopped_sessions).used_conda_prefix),
           me, Tail(stopped_sessions))

\* ------------------------------------------------------------ session deploy
\* A request arrives: the constructor, then _create_env_from_model.
TmuxBegin ==
    /\ pc = "idle" /\ runtime_env = "tmux" /\ deploys < MaxDeploys
    /\ \E model_content \in Requests, outcome \in CreateEnvOutcomes :
         \E me \in {NewDeployment(model_content, deploys + 1)} :
            /\ self' = me
            /\ envs' = IF outcome = "ok"
                       THEN envs \cup {DeploymentName(me.name, me.stage, me.suffix)}
                       ELSE envs
            /\ pc' = IF CreateEnvRaises(outcome) THEN "idle" ELSE "stop_old"
            /\ response' = IF CreateEnvRaises(outcome) THEN CreateEnvError(outcome)
                           ELSE NoResponse
            /\ sequence' = IF CreateEnvRaises(outcome)
                           THEN NextSequence(sequence, me, FALSE)
                           ELSE sequence
    /\ deploys' = deploys + 1
    /\ stopped' = << >>
    /\ stoppedOld' = {}
    /\ before' = Instances
    /\ justRemoved' = {}
    /\ UNCHANGED <<removal, started, DEFAULT_ARGS, tenancy, named, racing,
                   lost, prometheus, targets, report, handed, commands, dags,
                   port_probe, probe, undeployed, stop_args, removed,
                   runtime_env, env_vars, containers, images, volumes,
                   sessions>>

\* The first _stop_model_server of deploy_model.
TmuxStopOld ==
    /\ pc = "stop_old" /\ runtime_env = "tmux"
    /\ \E r \in {TmuxStopModelServer(sessions, self, TmuxStopOldFindBy,
                                    TmuxStopOldKill, << >>)} :
          /\ sessions' = r.sessions
          /\ stopped' = r.stopped_sessions
          /\ stoppedOld' = r.ids
          /\ justRemoved' = Ids(sessions) \ Ids(r.sessions)
    /\ pc' = "port_check"
    /\ UNCHANGED <<removal, started, DEFAULT_ARGS, tenancy, named, racing,
                   lost, prometheus, targets, report, handed, commands, dags,
                   port_probe, probe, undeployed, stop_args, removed,
                   runtime_env, env_vars, containers, images, volumes, envs,
                   self, response, deploys, before, sequence>>

\* Port in use: delete the new env, relaunch what was stopped, raise 502.
TmuxPortInUse ==
    /\ pc = "port_check" /\ runtime_env = "tmux"
    /\ TRUE \in PortInUseOutcomes(self.port)
    /\ envs' = DeleteEnvIfExists(envs, self, << >>,
                                 DeploymentName(self.name, self.stage, self.suffix))
    /\ \E healthy \in BOOLEAN :
         \E r \in {TmuxRestart(sessions, self, stopped, FALSE, healthy)} :
            /\ sessions' = r.sessions
            /\ justRemoved' = Ids(sessions) \ Ids(r.sessions)
            /\ response' =
                 IF r.raised # ""
                 THEN Resp(r.raised, 500, "no attribute 'attached_pane'", FALSE, pc)
                 ELSE Resp("HTTPException", 502, "Port is already in use", FALSE, pc)
    /\ pc' = "idle"
    /\ sequence' = NextSequence(sequence, self, FALSE)
    /\ UNCHANGED <<removal, started, DEFAULT_ARGS, tenancy, named, racing,
                   lost, prometheus, targets, report, handed, commands, dags,
                   port_probe, probe, undeployed, stop_args, removed,
                   runtime_env, env_vars, containers, images, volumes, self,
                   stopped, deploys, before, stoppedOld>>

TmuxPortFree ==
    /\ pc = "port_check" /\ runtime_env = "tmux"
    /\ FALSE \in PortInUseOutcomes(self.port)
    /\ pc' = "start_new"
    /\ UNCHANGED <<removal, started, DEFAULT_ARGS, tenancy, named, racing,
                   lost, prometheus, targets, report, handed, commands, dags,
                   port_probe, probe, undeployed, stop_args, removed,
                   runtime_env, env_vars, containers, images, volumes,
                   sessions, envs, self, stopped, response, deploys, before,
                   stoppedOld, justRemoved, sequence>>

\* _start_model_server(args): the new session, its environment, and gunicorn
\* sent to its pane.
TmuxStartNew ==
    /\ pc = "start_new" /\ runtime_env = "tmux"
    /\ sessions' = PaneServe(sessions \cup {Session(self)}, self, Session(self))
    /\ pc' = "health_check"
    /\ UNCHANGED <<removal, started, DEFAULT_ARGS, tenancy, named, racing,
                   lost, prometheus, targets, report, handed, commands, dags,
                   port_probe, probe, undeployed, stop_args, removed,
                   runtime_env, env_vars, containers, images, volumes, envs,
                   self, stopped, response, deploys, before, stoppedOld,
                   justRemoved, sequence>>

\* The probe of the new session succeeds.
TmuxHealthy ==
    /\ pc = "health_check" /\ runtime_env = "tmux"
    /\ sessions' = LaunchGunicornInSession(sessions, self, Session(self), TRUE,
                                           TRUE).sessions
    /\ pc' = "finalize"
    /\ UNCHANGED <<removal, started, DEFAULT_ARGS, tenancy, named, racing,
                   lost, prometheus, targets, report, handed, commands, dags,
                   port_probe, probe, undeployed, stop_args, removed,
                   runtime_env, env_vars, containers, images, volumes, envs,
                   self, stopped, response, deploys, before, stoppedOld,
                   justRemoved, sequence>>

\* The probe fails: the new session is killed and HTTPException raised; the
\* handler relaunches stopped_sessions and re-raises.
TmuxUnhealthy ==
    /\ pc = "health_check" /\ runtime_env = "tmux"
    /\ \E healthy \in BOOLEAN :
         \E failed \in {LaunchGunicornInSession(sessions, self, Session(self),
                                               TRUE, FALSE)} :
         \E r \in {TmuxRestart(failed.sessions, self, stopped, FALSE, healthy)} :
            /\ sessions' = r.sessions
            /\ justRemoved' = Ids(sessions) \ Ids(r.sessions)
            /\ response' =
                 IF r.raised # ""
                 THEN Resp(r.raised, 500, "no attribute 'attached_pane'", FALSE, pc)
                 ELSE Resp("HTTPException", 500, "Could not deploy service", TRUE, pc)
    /\ pc' = "idle"
    /\ sequence' = NextSequence(sequence, self, FALSE)
    /\ UNCHANGED <<removal, started, DEFAULT_ARGS, tenancy, named, racing,
                   lost, prometheus, targets, report, handed, commands, dags,
                   port_probe, probe, undeployed, stop_args, removed,
                   runtime_env, env_vars, containers, images, volumes, envs,
                   self, stopped, deploys, before, stoppedOld>>

\* The second _stop_model_server (kill, the new session excluded), then the
\* envs of what it stopped.
TmuxFinalize ==
    /\ pc = "finalize" /\ runtime_env = "tmux"
    /\ \E r \in {TmuxStopModelServer(sessions, self, TmuxFinalizeFindBy,
                                    TmuxFinalizeKill, Session(self).name)} :
          /\ sessions' = r.sessions
          /\ stopped' = r.stopped_sessions
          /\ envs' = DeleteEnvsOf(envs, self, r.stopped_sessions)
          /\ justRemoved' = Ids(sessions) \ Ids(r.sessions)
    /\ response' = Resp("return", 200, "deployed", FALSE, pc)
    /\ pc' = "idle"
    /\ sequence' = NextSequence(sequence, self, TRUE)
    /\ UNCHANGED <<removal, started, DEFAULT_ARGS, tenancy, named, racing,
                   lost, prometheus, targets, report, handed, commands, dags,
                   port_probe, probe, undeployed, stop_args, removed,
                   runtime_env, env_vars, containers, images, volumes, self,
                   deploys, before, stoppedOld>>

Init ==
    /\ runtime_env \in RuntimeEnv
    /\ env_vars \in (IF runtime_env = "docker" THEN {{}} ELSE EnvVarsConfigs)
    /\ containers = {} /\ images = {} /\ volumes = {}
    /\ sessions = {} /\ envs = {}
    /\ pc = "idle" /\ self = NoSelf /\ stopped = << >>
    /\ response = NoResponse /\ deploys = 0
    /\ before = {} /\ stoppedOld = {} /\ justRemoved = {}
    /\ sequence = << >>
    /\ stop_args = NoStopArgs
    /\ removed = << >>
    /\ undeployed = << >>
    /\ removal = NoRemoval
    /\ started = << >>
    /\ DEFAULT_ARGS = [port |-> STANDARD_PORT]
    /\ tenancy = NoTenancy
    /\ named = << >>
    /\ racing = [p \in Operations |-> NoRacer]
    /\ lost = {}
    /\ prometheus = [p \in Operations |-> NoOperation]
    /\ targets = {}
    /\ report = NoReport
    /\ handed = NoHandOff
    /\ commands = NoCommands
    /\ dags = {}
    /\ port_probe = NoPortProbe
    /\ probe = NoProbe

Next ==
    \/ DockerBegin
    \/ DockerPortInUse
    \/ DockerPortFree
    \/ DockerStartNew
    \/ DockerHealthy
    \/ DockerUnhealthy
    \/ DockerFinalize
    \/ TmuxBegin
    \/ TmuxStopOld
    \/ TmuxPortInUse
    \/ TmuxPortFree
    \/ TmuxStartNew
    \/ TmuxHealthy
    \/ TmuxUnhealthy
    \/ TmuxFinalize

Spec == Init /\ [][Next]_vars

\* A deploy_model call that has begun keeps running: each of its steps is a
\* call that returns or raises.
Proceeds == pc # "idle" /\ Next

LiveSpec == Spec /\ WF_vars(Proceeds)

\* ------------------------------------------- _stop_model_server on its own
\* The listings a call may find: up to MaxInstances instances, each with any
\* name, version and stage, running or not.
Identities == [name : {"A", "B"}, version : Versions, stage : Stages]

Listings ==
    UNION {[D -> [identity : Identities, status : {"running", "exited"}]] :
           D \in SUBSET (1..MaxInstances)}

ListedContainer(identity, n, status) ==
    [Container([name |-> identity.name, version |-> identity.version,
                stage |-> identity.stage, suffix |-> n, port |-> STANDARD_PORT])
       EXCEPT !.status = status, !.healthy = (status = "running")]

ListedSession(identity, n, status) ==
    [Session([name |-> identity.name, version |-> identity.version,
              stage |-> identity.stage, suffix |-> n, port |-> STANDARD_PORT])
       EXCEPT !.attached_pane.status = status,
              !.attached_pane.healthy = (status = "running")]

Found ==
    /\ runtime_env \in RuntimeEnv
    /\ env_vars \in (IF runtime_env = "docker" THEN {{}} ELSE EnvVarsConfigs)
    /\ containers \in
         (IF runtime_env = "docker"
          THEN {{ListedContainer(f[n].identity, n, f[n].status) : n \in DOMAIN f} :
                f \in Listings}
          ELSE {{}})
    /\ images = UNION {ImageTags(c.id) : c \in containers}
    /\ volumes = Ids(containers)
    /\ sessions \in
         (IF runtime_env = "tmux"
          THEN {{ListedSession(f[n].identity, n, f[n].status) : n \in DOMAIN f} :
                f \in Listings}
          ELSE {{}})
    /\ envs = {s.name : s \in sessions}
    /\ self = NoSelf /\ stopped = << >>
    /\ response = NoResponse /\ deploys = 0
    /\ before = {} /\ stoppedOld = {} /\ justRemoved = {}
    /\ sequence = << >>
    /\ stop_args = NoStopArgs
    /\ removed = << >>
    /\ undeployed = << >>
    /\ removal = NoRemoval
    /\ started = << >>
    /\ DEFAULT_ARGS = [port |-> STANDARD_PORT]
    /\ tenancy = NoTenancy
    /\ named = << >>
    /\ racing = [p \in Operations |-> NoRacer]
    /\ lost = {}
    /\ prometheus = [p \in Operations |-> NoOperation]
    /\ targets = {}
    /\ report = NoReport
    /\ handed = NoHandOff
    /\ commands = NoCommands
    /\ port_probe = NoPortProbe
    /\ probe = NoProbe

InitStop == Found /\ dags = {} /\ pc = "stop"

\* The find_by arguments a call is given.
StopCriteria == {{"version"}, {"stage"}, {"version", "stage"}}

\* One call of DockerDeployment._stop_model_server.
DockerStopMatching ==
    /\ pc = "stop" /\ runtime_env = "docker"
    /\ \E identity \in Identities, find_by \in StopCriteria,
          remove_container \in BOOLEAN, failAt \in {0, 1} :
         LET me == [name |-> identity.name, version |-> identity.version,
                    stage |-> identity.stage, suffix |-> MaxInstances + 1,
                    port |-> STANDARD_PORT]
             r == DockerStopModelServer(Docker, me, find_by, remove_container,
                                        << >>, failAt)
         IN /\ self' = me
            /\ stop_args' = [find_by |-> find_by, remove |-> remove_container]
            /\ containers' = r.containers
            /\ images' = r.images
            /\ volumes' = r.volumes
            /\ stopped' = r.stopped_containers
            /\ stoppedOld' = Ids(SeqToSet(r.stopped_containers))
            /\ justRemoved' = Ids(SeqToSet(r.removed_containers))
            /\ removed' = r.removed_containers
    /\ before' = Instances
    /\ pc' = "stopped"
    /\ UNCHANGED <<removal, started, DEFAULT_ARGS, tenancy, named, racing,
                   lost, prometheus, targets, report, handed, commands, dags,
                   port_probe, runtime_env, env_vars, sessions, envs,
                   response, deploys, sequence, undeployed, probe>>

\* One call of TmuxDeployment._stop_model_server.
TmuxStopMatching ==
    /\ pc = "stop" /\ runtime_env = "tmux"
    /\ \E identity \in Identities, find_by \in StopCriteria,
          kill_session \in BOOLEAN :
         LET me == [name |-> identity.name, version |-> identity.version,
                    stage |-> identity.stage, suffix |-> MaxInstances + 1,
                    port |-> STANDARD_PORT]
             r == TmuxStopModelServer(sessions, me, find_by, kill_session, << >>)
         IN /\ self' = me
            /\ stop_args' = [find_by |-> find_by, remove |-> kill_session]
            /\ sessions' = r.sessions
            /\ stopped' = r.stopped_sessions
            /\ stoppedOld' = r.ids
            /\ justRemoved' = Ids(sessions) \ Ids(r.sessions)
            /\ removed' = IF kill_session THEN r.stopped_sessions ELSE << >>
    /\ before' = Instances
    /\ pc' = "stopped"
    /\ UNCHANGED <<removal, started, DEFAULT_ARGS, tenancy, named, racing,
                   lost, prometheus, targets, report, handed, commands, dags,
                   port_probe, runtime_env, env_vars, containers, images,
                   volumes, envs, response, deploys, sequence, undeployed,
                   probe>>

NextStop ==
    \/ DockerStopMatching
    \/ TmuxStopMatching

SpecStop == InitStop /\ [][NextStop]_vars

\* ------------------------------------------------------------------ undeploy
\* UndeployModelInput: a name and a version; the stage is left at its default.
UndeployRequests == [name : {"A", "B"}, version : Versions]

Undeployment(model_content) ==
    [name |-> model_content.name, version |-> model_content.version,
     stage |-> None, suffix |-> 0, port |-> STANDARD_PORT]

\* Stop calls that leave what they stop in place.
Keeping == FALSE
NotKilling == FALSE

\* The arguments of the _stop_model_server call of undeploy_model.
UndeployFindBy == {"version"}
DockerUndeployRemove == TRUE
TmuxUndeployKill == TRUE

NotFound(me) ==
    Resp("HTTPException", 404, "Model could not be undeployed", FALSE, "undeploy")

NextUndeployed(history, me, ok) ==
    IF history = <<me.name, me.version, 1>> THEN <<me.name, me.version, 2>>
    ELSE IF ok THEN <<me.name, me.version, 1>>
    ELSE << >>

\* DockerDeployment.undeploy_model
DockerUndeploy ==
    /\ pc = "idle" /\ runtime_env = "docker"
    /\ \E model_content \in UndeployRequests, failAt \in {0, 1} :
         LET me == Undeployment(model_content)
             r == DockerStopModelServer(Docker, me, UndeployFindBy,
                                        DockerUndeployRemove, << >>, failAt)
             ok == r.raised = "" /\ Len(r.stopped_containers) > 0
         IN /\ self' = me
            /\ containers' = r.containers
            /\ images' = r.images
            /\ volumes' = r.volumes
            /\ stopped' = r.stopped_containers
            /\ removed' = r.removed_containers
            /\ stoppedOld' = Ids(SeqToSet(r.stopped_containers))
            /\ justRemoved' = Ids(containers) \ Ids(r.containers)
            /\ response' = IF r.raised # "" THEN StartError(r.raised, "undeploy")
                           ELSE IF ok THEN Resp("return", 200, "undeployed", FALSE,
                                                "undeploy")
                           ELSE NotFound(me)
            /\ undeployed' = NextUndeployed(undeployed, me, ok)
    /\ before' = Instances
    /\ UNCHANGED <<removal, started, DEFAULT_ARGS, tenancy, named, racing,
                   lost, prometheus, targets, report, handed, commands, dags,
                   port_probe, runtime_env, env_vars, sessions, envs, pc,
                   deploys, sequence, stop_args, probe>>

\* The loop of TmuxDeployment.undeploy_model over the stopped sessions.
RECURSIVE UndeployEnvs(_, _, _)
UndeployEnvs(es, me, stopped_sessions) ==
    IF stopped_sessions = << >> THEN es
    ELSE UndeployEnvs(DeleteEnvIfExists(es, me, << >>,
                                        Head(stopped_sessions).used_conda_prefix),
                      me, Tail(stopped_sessions))

\* TmuxDeployment.undeploy_model
TmuxUndeploy ==
    /\ pc = "idle" /\ runtime_env = "tmux"
    /\ \E model_content \in UndeployRequests :
         LET me == Undeployment(model_content)
             r == TmuxStopModelServer(sessions, me, UndeployFindBy,
                                      TmuxUndeployKill, << >>)
             ok == Len(r.stopped_sessions) > 0
         IN /\ self' = me
            /\ sessions' = r.sessions
            /\ envs' = UndeployEnvs(envs, me, r.stopped_sessions)
            /\ stopped' = r.stopped_sessions
            /\ removed' = r.stopped_sessions
            /\ stoppedOld' = r.ids
            /\ justRemoved' = Ids(sessions) \ Ids(r.sessions)
            /\ response' = IF ok THEN Resp("return", 200, "undeployed", FALSE,
                                           "undeploy")
                           ELSE NotFound(me)
            /\ undeployed' = NextUndeployed(undeployed, me, ok)
    /\ before' = Instances
    /\ UNCHANGED <<removal, started, DEFAULT_ARGS, tenancy, named, racing,
                   lost, prometheus, targets, report, handed, commands, dags,
                   port_probe, runtime_env, env_vars, containers, images,
                   volumes, pc, deploys, sequence, stop_args, probe>>

InitUndeploy == Found /\ dags = {} /\ pc = "idle"

NextUndeploy ==
    \/ DockerUndeploy
    \/ TmuxUndeploy

SpecUndeploy == InitUndeploy /\ [][NextUndeploy]_vars

\* --------------------------------------------------------- the health probe
\* What one GET of /healthz can meet: a response with a status code, or an
\* exception of the connection.
Answers ==
    [kind : {"response"}, status_code : {200, 503}, error : {""}]
    \cup [kind : {"exception"}, status_code : {0},
          error : {"ConnectionError", "ReadTimeout"}]

\* A Retry that gives up with the last retry still unspent.
ExhaustedAtZero(total) == total <= 0

\* Retry(total): exhausted once the count of retries left falls below zero.
Exhausted(total) == total < 0

\* A call _is_service_healthy(port, retries) and the endpoint it will meet.
InitProbe ==
    /\ runtime_env \in RuntimeEnv
    /\ env_vars = {} /\ containers = {} /\ images = {} /\ volumes = {}
    /\ sessions = {} /\ envs = {}
    /\ pc = "probe" /\ self = NoSelf /\ stopped = << >>
    /\ response = NoResponse /\ deploys = 0
    /\ before = {} /\ stoppedOld = {} /\ justRemoved = {}
    /\ sequence = << >> /\ stop_args = NoStopArgs /\ removed = << >>
    /\ undeployed = << >>
    /\ removal = NoRemoval
    /\ started = << >>
    /\ DEFAULT_ARGS = [port |-> STANDARD_PORT]
    /\ tenancy = NoTenancy
    /\ named = << >>
    /\ racing = [p \in Operations |-> NoRacer]
    /\ lost = {}
    /\ prometheus = [p \in Operations |-> NoOperation]
    /\ targets = {}
    /\ report = NoReport
    /\ handed = NoHandOff
    /\ commands = NoCommands
    /\ dags = {}
    /\ port_probe = NoPortProbe
    /\ \E retries \in 0..MaxRetries :
         probe \in [retries : {retries},
                    endpoint : [1..(MaxRetries + 1) -> Answers],
                    total : {retries}, attempts : {0}, result : {"pending"}]

\* One attempt of session.get under the mounted Retry: a response of any
\* status is handed back to the caller, which returns True for 200 and falls
\* through to return False otherwise; an exception uses up one retry, and the
\* exception of the exhausted Retry is caught and answered with False.
ProbeAttempt ==
    /\ pc = "probe" /\ probe.result = "pending"
    /\ LET answer == probe.endpoint[probe.attempts + 1]
           total == probe.total - 1
       IN probe' =
            [probe EXCEPT
               !.attempts = @ + 1,
               !.total = IF answer.kind = "exception" THEN total ELSE @,
               !.result = CASE answer.kind = "response" /\ answer.status_code = 200
                                 -> "True"
                            [] answer.kind = "response" -> "False"
                            [] Exhausted(total) -> "False"
                            [] OTHER -> "pending"]
    /\ UNCHANGED <<removal, started, DEFAULT_ARGS, tenancy, named, racing,
                   lost, prometheus, targets, report, handed, commands, dags,
                   port_probe, runtime_env, env_vars, containers, images,
                   volumes, sessions, envs, pc, self, stopped, response,
                   deploys, before, stoppedOld, justRemoved, sequence,
                   stop_args, removed, undeployed>>

NextProbe == ProbeAttempt

SpecProbe == InitProbe /\ [][NextProbe]_vars

\* ----------------------------------------------------------- the port probe
\* A probe that answers at its first attempt, whatever it finds.
AnswersAtFirst(found, attempts) == IF found THEN "True" ELSE "False"

\* The body of the for loop in _is_port_in_use: connect_ex # 0 returns False,
\* otherwise sleep and go on; the loop's end returns True.
PortAttempt(found, attempts) ==
    IF ~found THEN "False"
    ELSE IF attempts = port_probe.retry THEN "True"
    ELSE "pending"

\* A call _is_port_in_use(port, retry) and whether each connect will find the
\* port bound.
InitPort ==
    /\ runtime_env \in RuntimeEnv
    /\ env_vars = {} /\ containers = {} /\ images = {} /\ volumes = {}
    /\ sessions = {} /\ envs = {}
    /\ pc = "port" /\ self = NoSelf /\ stopped = << >>
    /\ response = NoResponse /\ deploys = 0
    /\ before = {} /\ stoppedOld = {} /\ justRemoved = {}
    /\ sequence = << >> /\ stop_args = NoStopArgs /\ removed = << >>
    /\ undeployed = << >>
    /\ removal = NoRemoval
    /\ started = << >>
    /\ DEFAULT_ARGS = [port |-> STANDARD_PORT]
    /\ tenancy = NoTenancy
    /\ named = << >>
    /\ racing = [p \in Operations |-> NoRacer]
    /\ lost = {}
    /\ prometheus = [p \in Operations |-> NoOperation]
    /\ targets = {}
    /\ report = NoReport
    /\ handed = NoHandOff
    /\ commands = NoCommands
    /\ dags = {}
    /\ probe = NoProbe
    /\ \E retry \in 0..(MaxRetries + 1) :
         port_probe \in [port : Ports, retry : {retry},
                         bound : [1..(MaxRetries + 1) -> BOOLEAN],
                         attempts : {0},
                         result : {IF retry = 0 THEN "True" ELSE "pending"}]

PortProbeStep ==
    /\ pc = "port" /\ port_probe.result = "pending"
    /\ port_probe' =
         [port_probe EXCEPT
            !.attempts = @ + 1,
            !.result = PortAttempt(port_probe.bound[port_probe.attempts + 1],
                                   port_probe.attempts + 1)]
    /\ UNCHANGED <<removal, started, DEFAULT_ARGS, tenancy, named, racing,
                   lost, prometheus, targets, report, handed, commands, dags,
                   runtime_env, env_vars, containers, images, volumes,
                   sessions, envs, pc, self, stopped, response, deploys,
                   before, stoppedOld, justRemoved, sequence, stop_args,
                   removed, undeployed, probe>>

NextPort == PortProbeStep

SpecPort == InitPort /\ [][NextPort]_vars

\* ------------------------------------------------ scheduled jobs (airflow)
\* The two files of a DAG: the copied template and its parameters.
Extensions == {"py", "yaml"}

\* AirflowDeployment.__init__
AirflowDeployment(name, version, suffix, stage) ==
    [name |-> name, version |-> version, stage |-> stage, suffix |-> suffix,
     port |-> 0]

DagFiles(deployment_name) == {<<deployment_name, ext>> : ext \in Extensions}

\* regex_by_suffix: {prefix}_{name_clean}_\w+_{suffix}.(py|yaml)
RegexBySuffix(files, me) ==
    {f \in files : /\ f[1][1] = "bentoml" /\ f[1][2] = me.name
                   /\ f[1][4] = me.suffix}

\* A pattern no file name matches.
NoMatch(files, me) == {}

\* regex_by_stage: {prefix}_{name_clean}_{stage_clean}_\w+.(py|yaml)
RegexByStage(files, me) ==
    {f \in files : /\ f[1][1] = "bentoml" /\ f[1][2] = me.name
                   /\ f[1][3] = me.stage}

\* A dag entered once for each of its files.
PerFile(matched, names) ==
    [dag \in {f[1] : f \in matched} \cup names |->
       Cardinality({f \in matched : f[1] = dag})
       + (IF dag \in names THEN 1 ELSE 0)]

\* dags is a set: a dag is in it once, however many of its files matched.
DagsToDelete(matched, names) ==
    [dag \in {f[1] : f \in matched} \cup names |-> 1]

\* remove_dag: the files each criterion matches are deleted in turn, then one
\* 'airflow dags delete' per dag; not_found are the dags the scheduler does
\* not know (non-zero exit), which is logged as a warning.
RemoveDag(files, me, by, name, not_found) ==
    LET by_suffix == IF "suffix" \in by THEN RegexBySuffix(files, me) ELSE {}
        by_stage == IF "stage" \in by
                    THEN RegexByStage(files \ by_suffix, me) ELSE {}
        names == IF "name" \in by THEN {name} ELSE {}
        by_name == IF "name" \in by
                   THEN DagFiles(name) \cap (files \ (by_suffix \cup by_stage))
                   ELSE {}
        matched == by_suffix \cup by_stage \cup by_name
        issued == DagsToDelete(matched, names)
    IN [files |-> files \ matched,
        commands |-> [issued |-> issued,
                      warned |-> DOMAIN issued \cap not_found],
        raised |-> ""]

\* AirflowDeployment.deploy_model
AirflowDeployModel(files, me, template, not_found) ==
    IF ~template
    THEN [files |-> files, commands |-> NoCommands,
          raised |-> "Dag template not found"]
    ELSE LET r == RemoveDag(files, me, {"suffix", "stage"}, << >>, not_found)
         IN [r EXCEPT !.files =
               @ \cup DagFiles(DeploymentName(me.name, me.stage, me.suffix))]

\* The dag names a directory of at most MaxDeploys deployments can hold, and
\* one that names no deployment.
DagNames ==
    {DeploymentName(name, stage, suffix) :
       name \in {"A", "B"}, stage \in Stages, suffix \in 1..MaxDeploys}

\* One AirflowDeployment.deploy_model.
AirflowDeploy ==
    /\ pc = "jobs" /\ deploys < MaxDeploys
    /\ \E name \in {"A", "B"}, version \in Versions, stage \in Stages,
          template \in BOOLEAN, not_found \in SUBSET {f[1] : f \in dags} :
         LET me == AirflowDeployment(name, version, deploys + 1, stage)
             r == AirflowDeployModel(dags, me, template, not_found)
         IN /\ self' = me
            /\ dags' = r.files
            /\ commands' = r.commands
            /\ response' = IF r.raised # "" THEN StartError(r.raised, "airflow")
                           ELSE Resp("return", 200, "deployed", FALSE, "airflow")
    /\ deploys' = deploys + 1
    /\ stop_args' = NoStopArgs
    /\ UNCHANGED <<removal, started, DEFAULT_ARGS, tenancy, named, racing,
                   lost, prometheus, targets, report, handed, probe,
                   port_probe, runtime_env, env_vars, containers, images,
                   volumes, sessions, envs, pc, stopped, before, stoppedOld,
                   justRemoved, sequence, removed, undeployed>>

\* One AirflowDeployment.remove_dag(by=['name'], name=...), as undeploy_model
\* calls it.
AirflowRemoveDag ==
    /\ pc = "jobs"
    /\ \E name \in DagNames : \E not_found \in SUBSET {name} :
         LET me == AirflowDeployment(name[2], "", None, None)
             r == RemoveDag(dags, me, {"name"}, name, not_found)
         IN /\ self' = me
            /\ dags' = r.files
            /\ commands' = r.commands
            /\ stop_args' = [find_by |-> {"name"}, remove |-> TRUE, name |-> name]
            /\ response' = IF r.raised # "" THEN StartError(r.raised, "airflow")
                           ELSE Resp("return", 200, "removed", FALSE, "airflow")
    /\ UNCHANGED <<removal, started, DEFAULT_ARGS, tenancy, named, racing,
                   lost, prometheus, targets, report, handed, probe,
                   port_probe, runtime_env, env_vars, containers, images,
                   volumes, sessions, envs, pc, stopped, deploys, before,
                   stoppedOld, justRemoved, sequence, removed, undeployed>>

InitJobs ==
    /\ runtime_env \in RuntimeEnv
    /\ env_vars = {} /\ containers = {} /\ images = {} /\ volumes = {}
    /\ sessions = {} /\ envs = {}
    /\ pc = "jobs" /\ self = NoSelf /\ stopped = << >>
    /\ response = NoResponse /\ deploys = 0
    /\ before = {} /\ stoppedOld = {} /\ justRemoved = {}
    /\ sequence = << >> /\ stop_args = NoStopArgs /\ removed = << >>
    /\ undeployed = << >>
    /\ removal = NoRemoval
    /\ started = << >>
    /\ DEFAULT_ARGS = [port |-> STANDARD_PORT]
    /\ tenancy = NoTenancy
    /\ named = << >>
    /\ racing = [p \in Operations |-> NoRacer]
    /\ lost = {}
    /\ prometheus = [p \in Operations |-> NoOperation]
    /\ targets = {}
    /\ report = NoReport
    /\ probe = NoProbe /\ port_probe = NoPortProbe
    /\ dags = {} /\ commands = NoCommands /\ handed = NoHandOff

NextJobs ==
    \/ AirflowDeploy
    \/ AirflowRemoveDag

SpecJobs == InitJobs /\ [][NextJobs]_vars

\* --------------------------------------------------- the handlers of main.py
\* removed_container.labels.get('batch_prediction', False) in [True, 'True']
BatchPrediction(removed_container) ==
    /\ "batch_prediction" \in DOMAIN removed_container.labels
    /\ removed_container.labels["batch_prediction"] = "True"

MergeCommands(a, b) ==
    [issued |-> [dag \in DOMAIN a.issued \cup DOMAIN b.issued |->
                   (IF dag \in DOMAIN a.issued THEN a.issued[dag] ELSE 0)
                   + (IF dag \in DOMAIN b.issued THEN b.issued[dag] ELSE 0)],
     warned |-> a.warned \cup b.warned]

\* AirflowDeployment.undeploy_model(removed_containers)
RECURSIVE AirflowUndeployModel(_, _, _, _, _)
AirflowUndeployModel(files, me, removed_containers, not_found, cmds) ==
    IF removed_containers = << >>
    THEN [files |-> files, commands |-> cmds, raised |-> ""]
    ELSE LET removed_container == Head(removed_containers)
             r == RemoveDag(files, me, {"name"}, removed_container.name, not_found)
         IN IF BatchPrediction(removed_container)
            THEN AirflowUndeployModel(r.files, me, Tail(removed_containers),
                                      not_found, MergeCommands(cmds, r.commands))
            ELSE AirflowUndeployModel(files, me, Tail(removed_containers),
                                      not_found, cmds)

\* The dags the scheduler does not know: none, or none at all of those on file.
SchedulerKnows == {{}, {f[1] : f \in dags}}

\* Response(200, 'Started ...' / 'Stopped ...'), or what the handler raised.
Handled(raised, detail) ==
    IF raised = "" THEN Resp("return", 200, detail, FALSE, "handler")
    ELSE IF raised = "Not Found" THEN Resp("HTTPException", 404, raised, FALSE, "handler")
    ELSE Resp(IF raised \in {"TypeError", "AttributeError"} THEN raised
              ELSE "HTTPException", 500, raised, FALSE, "handler")

\* start with the container backend, for a request whose deploy_model
\* returns: the stop of what is there, a free port, the new container up and
\* healthy, the second stop; then the hand-over to airflow.
DockerStart ==
    /\ pc = "handler" /\ runtime_env = "docker"
    /\ \E model_content \in Requests, batch_prediction \in BOOLEAN,
          template \in BOOLEAN, not_found \in SchedulerKnows :
         \E me \in {NewDeployment(model_content, MaxInstances + 1)} :
         \E r1 \in {DockerStopModelServer(Docker, me, DockerStopOldFindBy,
                                         DockerStopOldRemove, << >>, 0)} :
         \E new \in {DockerStartModelServer(
                      [containers |-> r1.containers, images |-> r1.images,
                       volumes |-> r1.volumes], me, "ok")} :
         \E up \in {[new EXCEPT !.containers = ContainerStart(@, Container(me), TRUE)]} :
         \E r2 \in {DockerStopModelServer(up, me, DockerFinalizeFindBy,
                                         DockerFinalizeRemove, Container(me).name, 0)} :
         \E airflow \in {AirflowDeployment(me.name, me.version, me.suffix, me.stage)} :
         \E a1 \in {AirflowUndeployModel(dags, airflow, r2.removed_containers,
                                        not_found, NoCommands)} :
         \E a2 \in {AirflowDeployModel(a1.files, airflow, template, not_found)} :
            /\ ~PortHeld(r1.containers, {}, me.port)
            /\ self' = me
            /\ containers' = r2.containers
            /\ images' = r2.images
            /\ volumes' = r2.volumes
            /\ stopped' = r1.stopped_containers
            /\ stoppedOld' = Ids(SeqToSet(r1.stopped_containers))
            /\ removed' = r2.removed_containers
            /\ justRemoved' = Ids(containers) \ Ids(r2.containers)
            /\ handed' = IF batch_prediction
                         THEN [called |-> TRUE, containers |-> r2.removed_containers]
                         ELSE NoHandOff
            /\ dags' = IF batch_prediction THEN a2.files ELSE dags
            /\ commands' = IF batch_prediction
                           THEN MergeCommands(a1.commands, a2.commands)
                           ELSE NoCommands
            /\ response' = Handled(IF batch_prediction THEN a2.raised ELSE "",
                                   "Started")
    /\ before' = Instances
    /\ pc' = "handled"
    /\ deploys' = deploys + 1
    /\ UNCHANGED <<removal, started, DEFAULT_ARGS, tenancy, named, racing,
                   lost, prometheus, targets, report, probe, port_probe,
                   runtime_env, env_vars, sessions, envs, sequence, stop_args,
                   undeployed>>

\* stop with the container backend.
DockerStop ==
    /\ pc = "handler" /\ runtime_env = "docker"
    /\ \E model_content \in UndeployRequests, batch_prediction \in BOOLEAN,
          failAt \in {0, 1}, not_found \in SchedulerKnows :
         \E me \in {Undeployment(model_content)} :
         \E r \in {DockerStopModelServer(Docker, me, UndeployFindBy,
                                        DockerUndeployRemove, << >>, failAt)} :
         \E stopped_containers \in {r.stopped_containers} :
         \E returned \in {r.raised = "" /\ Len(stopped_containers) > 0} :
         \E airflow \in {AirflowDeployment(me.name, me.version, None, None)} :
         \E a \in {AirflowUndeployModel(dags, airflow, stopped_containers,
                                       not_found, NoCommands)} :
            /\ self' = me
            /\ containers' = r.containers
            /\ images' = r.images
            /\ volumes' = r.volumes
            /\ stopped' = stopped_containers
            /\ stoppedOld' = Ids(SeqToSet(stopped_containers))
            /\ removed' = r.removed_containers
            /\ justRemoved' = Ids(containers) \ Ids(r.containers)
            /\ handed' = IF returned /\ batch_prediction
                         THEN [called |-> TRUE, containers |-> stopped_containers]
                         ELSE NoHandOff
            /\ dags' = IF returned /\ batch_prediction THEN a.files ELSE dags
            /\ commands' = IF returned /\ batch_prediction THEN a.commands
                           ELSE NoCommands
            /\ response' = Handled(IF r.raised # "" THEN r.raised
                                   ELSE IF returned THEN "" ELSE "Not Found",
                                   "Stopped")
    /\ before' = Instances
    /\ pc' = "handled"
    /\ UNCHANGED <<removal, started, DEFAULT_ARGS, tenancy, named, racing,
                   lost, prometheus, targets, report, probe, port_probe,
                   runtime_env, env_vars, sessions, envs, deploys, sequence,
                   stop_args, undeployed>>

\* start with the session backend, for a request whose deploy_model returns.
\* It returns the string 'Deployed model', which the handler then indexes.
TmuxStart ==
    /\ pc = "handler" /\ runtime_env = "tmux"
    /\ \E model_content \in Requests, outcome \in {"nonzero", "ok"} :
         \E me \in {NewDeployment(model_content, MaxInstances + 1)} :
         \E prefix \in {DeploymentName(me.name, me.stage, me.suffix)} :
         \E r1 \in {TmuxStopModelServer(sessions, me, TmuxStopOldFindBy,
                                       TmuxStopOldKill, << >>)} :
         \E new \in {PaneServe(r1.sessions \cup {Session(me)}, me, Session(me))} :
         \E up \in {LaunchGunicornInSession(new, me, Session(me), TRUE, TRUE).sessions} :
         \E r2 \in {TmuxStopModelServer(up, me, TmuxFinalizeFindBy,
                                       TmuxFinalizeKill, Session(me).name)} :
            /\ ~PortHeld({}, r1.sessions, me.port)
            /\ self' = me
            /\ sessions' = r2.sessions
            /\ envs' = DeleteEnvsOf(IF outcome = "ok" THEN envs \cup {prefix}
                                    ELSE envs, me, r2.stopped_sessions)
            /\ stopped' = r2.stopped_sessions
            /\ stoppedOld' = r1.ids
            /\ removed' = r2.stopped_sessions
            /\ justRemoved' = Ids(sessions) \ Ids(r2.sessions)
    /\ handed' = NoHandOff
    /\ commands' = NoCommands
    /\ response' = Handled("TypeError", "")
    /\ before' = Instances
    /\ pc' = "handled"
    /\ deploys' = deploys + 1
    /\ UNCHANGED <<removal, started, DEFAULT_ARGS, tenancy, named, racing,
                   lost, prometheus, targets, report, dags, probe, port_probe,
                   runtime_env, env_vars, containers, images, volumes,
                   sequence, stop_args, undeployed>>

\* stop with the session backend: undeploy_model returns the string
\* 'Successfully undeployed model', whose characters have no labels.
TmuxStop ==
    /\ pc = "handler" /\ runtime_env = "tmux"
    /\ \E model_content \in UndeployRequests, batch_prediction \in BOOLEAN :
         \E me \in {Undeployment(model_content)} :
         \E r \in {TmuxStopModelServer(sessions, me, UndeployFindBy,
                                      TmuxUndeployKill, << >>)} :
         \E returned \in {Len(r.stopped_sessions) > 0} :
            /\ self' = me
            /\ sessions' = r.sessions
            /\ envs' = UndeployEnvs(envs, me, r.stopped_sessions)
            /\ stopped' = r.stopped_sessions
            /\ stoppedOld' = r.ids
            /\ removed' = r.stopped_sessions
            /\ justRemoved' = Ids(sessions) \ Ids(r.sessions)
            /\ handed' = IF returned /\ batch_prediction
                         THEN [called |-> TRUE,
                               containers |-> <<"Successfully undeployed model">>]
                         ELSE NoHandOff
            /\ response' = Handled(IF ~returned THEN "Not Found"
                                   ELSE IF batch_prediction THEN "AttributeError"
                                   ELSE "", "Stopped")
    /\ commands' = NoCommands
    /\ before' = Instances
    /\ pc' = "handled"
    /\ UNCHANGED <<removal, started, DEFAULT_ARGS, tenancy, named, racing,
                   lost, prometheus, targets, report, dags, probe, port_probe,
                   runtime_env, env_vars, containers, images, volumes,
                   deploys, sequence, stop_args, undeployed>>

\* One request meets the instances found; they were deployed through the
\* container backend with batch_prediction, or without.
InitHandlers ==
    /\ Found /\ pc = "handler"
    /\ dags \in {UNION {DagFiles(c.name) : c \in batch} : batch \in {{}, containers}}

NextHandlers ==
    \/ DockerStart
    \/ DockerStop
    \/ TmuxStart
    \/ TmuxStop

SpecHandlers == InitHandlers /\ [][NextHandlers]_vars

\* ------------------------------------------------------------- GET /running
\* The keys of the report.
Backends == {"tmux", "docker", "airflow"}

\* What becomes of an exception raised by a backend's listing: only
\* TmuxDeployment.get_running_models catches the one of its server.
Degrades(backend) == backend = "tmux"

\* TmuxDeployment.get_running_models(): the labels of every session listed.
TmuxRunningModels(ss) ==
    LET found == GetRunningModels(ss, None, None, None)
    IN [i \in 1..Len(found) |->
          [label \in ListingLabels |-> ShowEnvironment(found[i], label)]]

\* DockerDeployment.get_running_models(): containers.list() gives the running
\* containers; name, version, stage and args of each.
DockerRunningModels(cs) ==
    LET found == ListNewestFirst({c \in cs : c.status = "running"})
    IN [i \in 1..Len(found) |-> found[i].labels]

\* AirflowDeployment.get_running_models(): one entry for each .yaml file.
AirflowRunningModels(files) ==
    ListNewestFirst({[id |-> f[1][4], name |-> f[1][2], stage |-> f[1][3]] :
                     f \in {g \in files : g[2] = "yaml"}})

Listing(backend) ==
    CASE backend = "tmux" -> TmuxRunningModels(sessions)
      [] backend = "docker" -> DockerRunningModels(containers)
      [] OTHER -> AirflowRunningModels(dags)

\* running: the three listings, in the order of the dict literal; the first
\* exception that is not caught ends the request.
Running ==
    /\ pc = "running"
    /\ \E unavailable \in SUBSET Backends :
         /\ ("tmux" \in unavailable) = (sessions = {})
         /\ report' =
              [raised |-> IF \E b \in unavailable : ~Degrades(b)
                          THEN IF "docker" \in unavailable THEN "DockerException"
                               ELSE "FileNotFoundError"
                          ELSE "",
               entries |-> IF \E b \in unavailable : ~Degrades(b) THEN << >>
                           ELSE [b \in Backends |->
                                   IF b \in unavailable THEN << >> ELSE Listing(b)],
               unavailable |-> unavailable]
    /\ pc' = "listed"
    /\ UNCHANGED <<removal, started, DEFAULT_ARGS, tenancy, named, racing,
                   lost, prometheus, targets, handed, commands, dags, probe,
                   port_probe, runtime_env, env_vars, containers, images,
                   volumes, sessions, envs, self, stopped, response, deploys,
                   before, stoppedOld, justRemoved, sequence, stop_args,
                   removed, undeployed>>

InitRunning ==
    /\ Found /\ pc = "running"
    /\ dags \in {UNION {DagFiles(c.name) : c \in batch} : batch \in {{}, containers}}

NextRunning == Running

SpecRunning == InitRunning /\ [][NextRunning]_vars

\* --------------------------------------------- monitoring targets (prometheus)
\* An object that starts from an empty list whatever the file holds.
LoadNothing(file) == {}

\* PrometheusDeployment.load_targets: the whole file, read at construction.
LoadTargets(file) == file

\* The entry deploy_model appends.
Target(me, port) ==
    [deployment_name |-> DeploymentName(me.name, me.stage, me.suffix),
     port |-> port]

\* The entries of a list a remove_target call is aimed at.
TargetsToDelete(list, me, by, name) ==
    {t \in list :
       \/ /\ "suffix" \in by
          /\ t.deployment_name[2] = me.name /\ t.deployment_name[4] = me.suffix
       \/ /\ "stage" \in by
          /\ t.deployment_name[2] = me.name /\ t.deployment_name[3] = me.stage
       \/ "name" \in by /\ t.deployment_name = name}

\* remove_target, on the object's own list.
RemoveTarget(list, me, by, name) == list \ TargetsToDelete(list, me, by, name)

\* What a write of new_list drops from the file without being aimed at it.
Dropped(file, new_list, me, by, name, stale) ==
    {[entry |-> t, stale |-> stale] :
       t \in (file \ new_list) \ TargetsToDelete(file, me, by, name)}

\* The objects of the other operations now hold a list the file has left.
Outdated(objects, p) ==
    [q \in Operations |->
       IF q = p THEN NoOperation
       ELSE IF objects[q].pc = "loaded" THEN [objects[q] EXCEPT !.stale = TRUE]
       ELSE objects[q]]

\* PrometheusDeployment(name, version, suffix, stage): the constructor loads
\* the targets.
PrometheusConstruct(p) ==
    /\ pc = "targets" /\ prometheus[p].pc = "idle" /\ deploys < MaxDeploys
    /\ \E name \in {"A", "B"}, stage \in Stages :
         prometheus' =
           [prometheus EXCEPT ![p] =
              [pc |-> "loaded",
               me |-> AirflowDeployment(name, "1", deploys + 1, stage),
               targets |-> LoadTargets(targets), stale |-> FALSE]]
    /\ deploys' = deploys + 1
    /\ UNCHANGED <<removal, started, DEFAULT_ARGS, tenancy, named, racing,
                   lost, targets, report, handed, commands, dags, probe,
                   port_probe, runtime_env, env_vars, containers, images,
                   volumes, sessions, envs, pc, self, stopped, response,
                   before, stoppedOld, justRemoved, sequence, stop_args,
                   removed, undeployed>>

\* deploy_model(port): remove by suffix and stage, append, write the file.
PrometheusDeployModel(p) ==
    /\ pc = "targets" /\ prometheus[p].pc = "loaded"
    /\ LET me == prometheus[p].me
           by == {"suffix", "stage"}
           new_list == RemoveTarget(prometheus[p].targets, me, by, << >>)
                       \cup {Target(me, STANDARD_PORT)}
       IN /\ targets' = new_list
          /\ lost' = lost \cup Dropped(targets, new_list, me, by, << >>,
                                       prometheus[p].stale)
    /\ prometheus' = Outdated(prometheus, p)
    /\ UNCHANGED <<removal, started, DEFAULT_ARGS, tenancy, named, racing,
                   report, handed, commands, dags, probe, port_probe,
                   runtime_env, env_vars, containers, images, volumes,
                   sessions, envs, pc, self, stopped, response, deploys,
                   before, stoppedOld, justRemoved, sequence, stop_args,
                   removed, undeployed>>

\* undeploy_model(removed_containers), for one removed container: remove by
\* name, write the file.
PrometheusUndeployModel(p) ==
    /\ pc = "targets" /\ prometheus[p].pc = "loaded"
    /\ \E removed_container \in targets \cup prometheus[p].targets :
         LET me == prometheus[p].me
             name == removed_container.deployment_name
             new_list == RemoveTarget(prometheus[p].targets, me, {"name"}, name)
         IN /\ targets' = new_list
            /\ lost' = lost \cup Dropped(targets, new_list, me, {"name"}, name,
                                         prometheus[p].stale)
    /\ prometheus' = Outdated(prometheus, p)
    /\ UNCHANGED <<removal, started, DEFAULT_ARGS, tenancy, named, racing,
                   report, handed, commands, dags, probe, port_probe,
                   runtime_env, env_vars, containers, images, volumes,
                   sessions, envs, pc, self, stopped, response, deploys,
                   before, stoppedOld, justRemoved, sequence, stop_args,
                   removed, undeployed>>

InitTargets ==
    /\ runtime_env \in RuntimeEnv
    /\ env_vars = {} /\ containers = {} /\ images = {} /\ volumes = {}
    /\ sessions = {} /\ envs = {}
    /\ pc = "targets" /\ self = NoSelf /\ stopped = << >>
    /\ response = NoResponse /\ deploys = 0
    /\ before = {} /\ stoppedOld = {} /\ justRemoved = {}
    /\ sequence = << >> /\ stop_args = NoStopArgs /\ removed = << >>
    /\ undeployed = << >>
    /\ removal = NoRemoval
    /\ started = << >>
    /\ DEFAULT_ARGS = [port |-> STANDARD_PORT]
    /\ tenancy = NoTenancy
    /\ named = << >>
    /\ racing = [p \in Operations |-> NoRacer]
    /\ probe = NoProbe /\ port_probe = NoPortProbe
    /\ dags = {} /\ commands = NoCommands /\ handed = NoHandOff
    /\ report = NoReport
    /\ targets = {} /\ lost = {}
    /\ prometheus = [p \in Operations |-> NoOperation]

NextTargets ==
    \E p \in Operations :
       \/ PrometheusConstruct(p)
       \/ PrometheusDeployModel(p)
       \/ PrometheusUndeployModel(p)

SpecTargets == InitTargets /\ [][NextTargets]_vars

\* ------------------------------------- two deploy_model calls at the same time
\* The requests of two deploys of one model and stage.
RaceRequests ==
    [name : {"A"}, version : Versions, stage : {"Staging"}, port : Ports]

\* The port is published by a running container: docker refuses to start
\* another one on it.
PortAllocated(cs, port) ==
    \E c \in cs : c.status = "running" /\ c.labels.args = port

\* existing_container.start() for each container of the list. A container
\* that has been removed since, or whose port is allocated, makes docker raise.
RECURSIVE RaceRestart(_, _, _)
RaceRestart(cs, existing_containers, healthy) ==
    IF existing_containers = << >> THEN [containers |-> cs, raised |-> ""]
    ELSE LET c == Head(existing_containers)
         IN IF c.id \notin Ids(cs)
            THEN [containers |-> cs, raised |-> "NotFound"]
            ELSE IF PortAllocated(cs, c.labels.args)
            THEN [containers |-> cs, raised |-> "APIError"]
            ELSE RaceRestart(ContainerStart(cs, c, healthy),
                             Tail(existing_containers), healthy)

\* The constructor and the first _stop_model_server.
RaceBegin(p) ==
    /\ pc = "race" /\ racing[p].pc = "ready"
    /\ \E model_content \in RaceRequests :
         \E me \in {NewDeployment(model_content, MaxInstances + deploys + 1)} :
         \E r \in {DockerStopModelServer(Docker, me, DockerStopOldFindBy,
                                        DockerStopOldRemove, << >>, 0)} :
            /\ containers' = r.containers
            /\ images' = r.images
            /\ volumes' = r.volumes
            /\ racing' = [racing EXCEPT ![p] =
                            [pc |-> "port_check", me |-> me,
                             stopped |-> r.stopped_containers,
                             response |-> NoResponse]]
    /\ deploys' = deploys + 1
    /\ UNCHANGED <<removal, started, DEFAULT_ARGS, tenancy, named, lost,
                   prometheus, targets, report, handed, commands, dags, probe,
                   port_probe, runtime_env, env_vars, sessions, envs, pc,
                   self, stopped, response, before, stoppedOld, justRemoved,
                   sequence, stop_args, removed, undeployed>>

\* Port in use: restart what this call stopped, raise 502.
RacePortInUse(p) ==
    /\ pc = "race" /\ racing[p].pc = "port_check"
    /\ TRUE \in PortInUseOutcomes(racing[p].me.port)
    /\ \E healthy \in BOOLEAN :
         \E r \in {RaceRestart(containers, racing[p].stopped, healthy)} :
            /\ containers' = r.containers
            /\ racing' = [racing EXCEPT ![p].pc = "done",
                            ![p].response =
                              IF r.raised # "" THEN StartError(r.raised, "port_check")
                              ELSE Resp("HTTPException", 502,
                                        "Port is already in use", FALSE,
                                        "port_check")]
    /\ UNCHANGED <<removal, started, DEFAULT_ARGS, tenancy, named, lost,
                   prometheus, targets, report, handed, commands, dags, probe,
                   port_probe, runtime_env, env_vars, images, volumes,
                   sessions, envs, pc, self, stopped, response, deploys,
                   before, stoppedOld, justRemoved, sequence, stop_args,
                   removed, undeployed>>

RacePortFree(p) ==
    /\ pc = "race" /\ racing[p].pc = "port_check"
    /\ FALSE \in PortInUseOutcomes(racing[p].me.port)
    /\ racing' = [racing EXCEPT ![p].pc = "start_new"]
    /\ UNCHANGED <<removal, started, DEFAULT_ARGS, tenancy, named, lost,
                   prometheus, targets, report, handed, commands, dags, probe,
                   port_probe, runtime_env, env_vars, containers, images,
                   volumes, sessions, envs, pc, self, stopped, response,
                   deploys, before, stoppedOld, justRemoved, sequence,
                   stop_args, removed, undeployed>>

\* containers.run: the container is created; it starts unless its port is
\* allocated, which docker reports as an APIError.
RaceStartNew(p) ==
    /\ pc = "race" /\ racing[p].pc = "start_new"
    /\ \E me \in {racing[p].me} :
       \E new \in {DockerStartModelServer(Docker, me, "ok")} :
          /\ images' = new.images
          /\ volumes' = new.volumes
          /\ IF PortAllocated(containers, me.port)
             THEN /\ containers' = ContainerStop(new.containers, Container(me))
                  /\ racing' = [racing EXCEPT ![p].pc = "done",
                                  ![p].response = StartError("run_error",
                                                             "start_new")]
             ELSE /\ containers' = new.containers
                  /\ racing' = [racing EXCEPT ![p].pc = "health_check"]
    /\ UNCHANGED <<removal, started, DEFAULT_ARGS, tenancy, named, lost,
                   prometheus, targets, report, handed, commands, dags, probe,
                   port_probe, runtime_env, env_vars, sessions, envs, pc,
                   self, stopped, response, deploys, before, stoppedOld,
                   justRemoved, sequence, stop_args, removed, undeployed>>

\* The probe of the new container succeeds.
RaceHealthy(p) ==
    /\ pc = "race" /\ racing[p].pc = "health_check"
    /\ Container(racing[p].me).id \in Ids({c \in containers : c.status = "running"})
    /\ containers' = ContainerStart(containers, Container(racing[p].me), TRUE)
    /\ racing' = [racing EXCEPT ![p].pc = "finalize"]
    /\ UNCHANGED <<removal, started, DEFAULT_ARGS, tenancy, named, lost,
                   prometheus, targets, report, handed, commands, dags, probe,
                   port_probe, runtime_env, env_vars, images, volumes,
                   sessions, envs, pc, self, stopped, response, deploys,
                   before, stoppedOld, justRemoved, sequence, stop_args,
                   removed, undeployed>>

\* It fails: the new container is stopped and removed, with its volume.
RaceUnhealthy(p) ==
    /\ pc = "race" /\ racing[p].pc = "health_check"
    /\ containers' = ContainerRemove(containers, Container(racing[p].me))
    /\ volumes' = volumes \ {racing[p].me.suffix}
    /\ racing' = [racing EXCEPT ![p].pc = "done",
                    ![p].response = Resp("HTTPException", 500,
                                         "Could not deploy service", TRUE,
                                         "health_check")]
    /\ UNCHANGED <<removal, started, DEFAULT_ARGS, tenancy, named, lost,
                   prometheus, targets, report, handed, commands, dags, probe,
                   port_probe, runtime_env, env_vars, images, sessions, envs,
                   pc, self, stopped, response, deploys, before, stoppedOld,
                   justRemoved, sequence, stop_args, removed, undeployed>>

\* The second _stop_model_server, the call's own container excluded.
RaceFinalize(p) ==
    /\ pc = "race" /\ racing[p].pc = "finalize"
    /\ \E r \in {DockerStopModelServer(Docker, racing[p].me, DockerFinalizeFindBy,
                                      DockerFinalizeRemove,
                                      Container(racing[p].me).name, 0)} :
          /\ containers' = r.containers
          /\ images' = r.images
          /\ volumes' = r.volumes
    /\ racing' = [racing EXCEPT ![p].pc = "done",
                    ![p].response = Resp("return", 200, "deployed", FALSE,
                                         "finalize")]
    /\ UNCHANGED <<removal, started, DEFAULT_ARGS, tenancy, named, lost,
                   prometheus, targets, report, handed, commands, dags, probe,
                   port_probe, runtime_env, env_vars, sessions, envs, pc,
                   self, stopped, response, deploys, before, stoppedOld,
                   justRemoved, sequence, stop_args, removed, undeployed>>

\* The instance the two deploys meet: none, or one of the model and stage,
\* running on one of the ports.
InitRace ==
    /\ runtime_env = "docker"
    /\ env_vars = {}
    /\ containers \in
         {{}} \cup
         {{[ListedContainer([name |-> "A", version |-> version,
                             stage |-> "Staging"], 1, "running")
              EXCEPT !.labels.args = port]} :
            version \in Versions, port \in Ports}
    /\ images = UNION {ImageTags(c.id) : c \in containers}
    /\ volumes = Ids(containers)
    /\ sessions = {} /\ envs = {}
    /\ pc = "race" /\ self = NoSelf /\ stopped = << >>
    /\ response = NoResponse /\ deploys = 0
    /\ before = {} /\ stoppedOld = {} /\ justRemoved = {}
    /\ sequence = << >> /\ stop_args = NoStopArgs /\ removed = << >>
    /\ undeployed = << >>
    /\ removal = NoRemoval
    /\ started = << >>
    /\ DEFAULT_ARGS = [port |-> STANDARD_PORT]
    /\ tenancy = NoTenancy
    /\ named = << >>
    /\ probe = NoProbe /\ port_probe = NoPortProbe
    /\ dags = {} /\ commands = NoCommands /\ handed = NoHandOff
    /\ report = NoReport
    /\ targets = {} /\ lost = {}
    /\ prometheus = [p \in Operations |-> NoOperation]
    /\ racing = [p \in Operations |-> NoRacer]

NextRace ==
    \E p \in Operations :
       \/ RaceBegin(p)
       \/ RacePortInUse(p)
       \/ RacePortFree(p)
       \/ RaceStartNew(p)
       \/ RaceHealthy(p)
       \/ RaceUnhealthy(p)
       \/ RaceFinalize(p)

SpecRace == InitRace /\ [][NextRace]_vars

\* ------------------------------------------------------ identity and naming
\* Strings are sequences of characters. The characters of the names that are
\* tried: a capital, a small letter, the underscore, and two characters that
\* are not word characters.
NameChars == {"A", "b", "_", "-", " "}
\* Longest model name that is tried.
MaxLen == 2
\* Number of constructor calls of one behaviour.
MaxCalls == 2

Capitals == <<"A", "N", "P", "S">>
Smalls == <<"a", "n", "p", "s">>
Digits == {"7", "9"}
Letters ==
    {"a", "b", "c", "d", "e", "g", "h", "i", "m", "l", "n", "o", "p", "r",
     "s", "t", "u", "v", "y", "z"} \cup {Capitals[i] : i \in 1..Len(Capitals)}

\* Stage(Enum): the values.
StageValues ==
    {<<"N", "o", "n", "e">>,
     <<"S", "t", "a", "g", "i", "n", "g">>,
     <<"P", "r", "o", "d", "u", "c", "t", "i", "o", "n">>,
     <<"A", "r", "c", "h", "i", "v", "e", "d">>}

\* The model names of the requests.
ModelNames == UNION {[1..n -> NameChars] : n \in 1..MaxLen}

\* random.choices(string.ascii_lowercase + string.digits, k=8): some of them.
SuffixLength == 8
RandomStrings ==
    {[i \in 1..SuffixLength |-> "a"],
     [i \in 1..SuffixLength |-> IF i = SuffixLength THEN "7" ELSE "a"],
     [i \in 1..SuffixLength |-> IF i = 1 THEN "z" ELSE "9"]}

\* \w of a regular expression.
WordCharacter(c) == c \in Letters \cup Digits \cup {"_"}

\* A substitution that takes nothing out.
KeepAll(s) == s

\* re.sub(r'\W+', '', s)
RECURSIVE SubNonWord(_)
SubNonWord(s) ==
    IF s = << >> THEN << >>
    ELSE (IF WordCharacter(Head(s)) THEN <<Head(s)>> ELSE << >>)
         \o SubNonWord(Tail(s))

\* str.lower()
ToLower(s) ==
    [i \in 1..Len(s) |->
       IF \E k \in 1..Len(Capitals) : Capitals[k] = s[i]
       THEN Smalls[CHOOSE k \in 1..Len(Capitals) : Capitals[k] = s[i]]
       ELSE s[i]]

\* The namespace tag of the generated names.
Bentoml == <<"b", "e", "n", "t", "o", "m", "l">>

\* f'bentoml_{name_clean}_{stage_clean}'
NameGeneral(name_clean, stage_clean) ==
    Bentoml \o <<"_">> \o name_clean \o <<"_">> \o stage_clean

\* TmuxDeployment.__init__: the names of the session and of the environment.
TmuxIdentity(name, stage, random_string) ==
    LET name_clean == ToLower(SubNonWord(name))
        stage_clean == ToLower(SubNonWord(stage))
    IN [backend |-> "tmux", name |-> name, stage |-> stage,
        suffix |-> random_string,
        env_name |-> NameGeneral(name_clean, stage_clean)
                       \o <<"_">> \o random_string,
        session_name |-> NameGeneral(name_clean, stage_clean)
                           \o <<"_">> \o random_string,
        image_name |-> << >>, dag_file |-> << >>]

\* The identity the container backend, the scheduled jobs and the monitoring
\* targets take from their base class: the cleaned name and stage, the suffix
\* (the one handed in, or a drawn one), and the deployment name.
BaseIdentity(name, stage, suffix) ==
    LET name_clean == ToLower(SubNonWord(name))
        stage_clean == ToLower(SubNonWord(stage))
    IN [name_clean |-> name_clean, stage_clean |-> stage_clean,
        suffix |-> suffix,
        deployment_name |-> NameGeneral(name_clean, stage_clean)
                              \o <<"_">> \o suffix]

\* DockerDeployment.__init__ (the image name), the container deploy_model runs
\* under the deployment name, and the job file start has AirflowDeployment
\* write for the suffix of the response.
DockerIdentity(name, stage, suffix) ==
    LET base == BaseIdentity(name, stage, suffix)
        airflow == BaseIdentity(name, stage, base.suffix)
    IN [backend |-> "docker", name |-> name, stage |-> stage,
        suffix |-> base.suffix,
        env_name |-> << >>,
        session_name |-> base.deployment_name,
        image_name |-> NameGeneral(base.name_clean, base.stage_clean)
                         \o <<":">> \o base.suffix,
        dag_file |-> airflow.deployment_name \o <<".", "p", "y">>]

\* The calls of one behaviour are for one model name and stage, those of the
\* first call.
NamesAsked == IF named = << >> THEN ModelNames ELSE {named[1].name}
StagesAsked == IF named = << >> THEN StageValues ELSE {named[1].stage}

\* A constructor call of the session backend; the random string is drawn.
TmuxConstruct ==
    /\ pc = "names" /\ runtime_env = "tmux" /\ Len(named) < MaxCalls
    /\ \E name \in NamesAsked, stage \in StagesAsked,
          random_string \in RandomStrings :
         named' = Append(named, TmuxIdentity(name, stage, random_string))
    /\ UNCHANGED <<removal, started, DEFAULT_ARGS, tenancy, racing, lost,
                   prometheus, targets, report, handed, commands, dags, probe,
                   port_probe, runtime_env, env_vars, containers, images,
                   volumes, sessions, envs, pc, self, stopped, response,
                   deploys, before, stoppedOld, justRemoved, sequence,
                   stop_args, removed, undeployed>>

\* A constructor call of the container backend, with the job file of the
\* deploy; the suffix is drawn or handed in.
DockerConstruct ==
    /\ pc = "names" /\ runtime_env = "docker" /\ Len(named) < MaxCalls
    /\ \E name \in NamesAsked, stage \in StagesAsked,
          suffix \in RandomStrings :
         named' = Append(named, DockerIdentity(name, stage, suffix))
    /\ UNCHANGED <<removal, started, DEFAULT_ARGS, tenancy, racing, lost,
                   prometheus, targets, report, handed, commands, dags, probe,
                   port_probe, runtime_env, env_vars, containers, images,
                   volumes, sessions, envs, pc, self, stopped, response,
                   deploys, before, stoppedOld, justRemoved, sequence,
                   stop_args, removed, undeployed>>

InitNames ==
    /\ runtime_env \in RuntimeEnv
    /\ env_vars = {}
    /\ containers = {} /\ images = {} /\ volumes = {}
    /\ sessions = {} /\ envs = {}
    /\ pc = "names" /\ self = NoSelf /\ stopped = << >>
    /\ response = NoResponse /\ deploys = 0
    /\ before = {} /\ stoppedOld = {} /\ justRemoved = {}
    /\ sequence = << >> /\ stop_args = NoStopArgs /\ removed = << >>
    /\ undeployed = << >>
    /\ removal = NoRemoval
    /\ started = << >>
    /\ DEFAULT_ARGS = [port |-> STANDARD_PORT]
    /\ tenancy = NoTenancy
    /\ named = << >>
    /\ probe = NoProbe /\ port_probe = NoPortProbe
    /\ dags = {} /\ commands = NoCommands /\ handed = NoHandOff
    /\ report = NoReport
    /\ targets = {} /\ lost = {}
    /\ prometheus = [p \in Operations |-> NoOperation]
    /\ racing = [p \in Operations |-> NoRacer]

NextNames == TmuxConstruct \/ DockerConstruct

SpecNames == InitNames /\ [][NextNames]_vars

\* ------------------------------------------- matching by name, several models
\* The model names that meet: a name, the same name with a capital, the name
\* followed by a stage word, and a longer name.
TenantNames ==
    {<<"a">>, <<"A">>, <<"a", "b">>,
     <<"a", "_", "s", "t", "a", "g", "i", "n", "g">>}
TenantStages ==
    {<<"S", "t", "a", "g", "i", "n", "g">>,
     <<"P", "r", "o", "d", "u", "c", "t", "i", "o", "n">>}

\* The n-th random string drawn.
SuffixNo(n) ==
    [i \in 1..SuffixLength |-> IF i = 1 THEN <<"a", "b", "c">>[n] ELSE "9"]

Py == <<".", "p", "y">>
Yaml == <<".", "y", "a", "m", "l">>

\* start in s
Contains(s, part) ==
    \E i \in 1..(Len(s) - Len(part) + 1) : SubSeq(s, i, i + Len(part) - 1) = part

\* s ends with end.
EndsWith(s, end) ==
    Len(s) >= Len(end) /\ SubSeq(s, Len(s) - Len(end) + 1, Len(s)) = end

\* \w+ matches the whole of s.
WordPlus(s) == s # << >> /\ \A i \in 1..Len(s) : WordCharacter(s[i])

\* What a deployment of a model leaves in the backends: its session, its
\* environment, its two job files and its monitoring target.
Tenant(name, stage, version, n) ==
    LET tmux == TmuxIdentity(name, stage, SuffixNo(n))
        base == BaseIdentity(name, stage, SuffixNo(n))
        item(kind, label) ==
            [kind |-> kind, label |-> label, model |-> name,
             version |-> version, stage |-> stage]
    IN {item("session", tmux.session_name),
        item("env", <<"/">> \o tmux.env_name),
        item("dag", base.deployment_name \o Py),
        item("dag", base.deployment_name \o Yaml),
        item("target", base.deployment_name)}

\* The object a request constructs: the raw and the cleaned names.
Requester(name, stage, version, n) ==
    LET tmux == TmuxIdentity(name, stage, SuffixNo(n))
    IN [name |-> name, stage |-> stage, version |-> version,
        suffix |-> SuffixNo(n),
        name_clean |-> ToLower(SubNonWord(name)),
        stage_clean |-> ToLower(SubNonWord(stage)),
        session_name |-> tmux.session_name,
        session_name_general |-> NameGeneral(ToLower(SubNonWord(name)),
                                             ToLower(SubNonWord(stage))),
        prefix |-> <<"/">> \o tmux.env_name,
        prefix_general |-> <<"/">> \o NameGeneral(ToLower(SubNonWord(name)),
                                                  ToLower(SubNonWord(stage)))]

\* get_running_models(name, version, session_name_start) over the sessions;
\* "" stands for an argument left out.
SessionsRunning(items, name, version, session_name_start) ==
    {s \in items :
       /\ s.kind = "session"
       /\ StartsWith(s.label, Bentoml \o <<"_">>)
       /\ session_name_start # "" => StartsWith(s.label, session_name_start)
       /\ name # "" => s.model = name
       /\ version # "" => s.version = version}

\* The sessions _stop_model_server acts on.
SessionsFound(items, me, find_by, exclude) ==
    {s \in (IF "version" \in find_by
            THEN SessionsRunning(items, me.name, me.version, "") ELSE {})
           \cup
           (IF "stage" \in find_by
            THEN SessionsRunning(items, "", "", me.session_name_general)
            ELSE {}) :
       s.label # exclude}

\* _delete_env_if_exists
EnvsFound(items, me, exclude, specific_prefix) ==
    LET envs_listed == {e \in items : e.kind = "env"}
    IN IF specific_prefix # "" /\ \E e \in envs_listed : e.label = specific_prefix
       THEN {e \in envs_listed : e.label = specific_prefix}
       ELSE {e \in envs_listed :
               /\ Contains(e.label, me.prefix_general)
               /\ exclude = "" \/ ~Contains(e.label, exclude)}

\* remove_dag: ^bentoml_{name_clean}_\w+_{suffix}.(?:py|yaml)$
DagBySuffix(file, me) ==
    \E extension \in {SubSeq(Py, 2, 3), SubSeq(Yaml, 2, 5)} :
      LET start == Bentoml \o <<"_">> \o me.name_clean \o <<"_">>
          end == <<"_">> \o me.suffix
          stem == SubSeq(file, 1, Len(file) - Len(extension) - 1)
      IN /\ EndsWith(file, extension)
         /\ Len(file) >= Len(extension) + 1
         /\ StartsWith(stem, start) /\ EndsWith(stem, end)
         /\ Len(stem) > Len(start) + Len(end)
         /\ WordPlus(SubSeq(stem, Len(start) + 1, Len(stem) - Len(end)))

\* remove_dag: ^bentoml_{name_clean}_{stage_clean}_\w+.(?:py|yaml)$
DagByStage(file, me) ==
    \E extension \in {SubSeq(Py, 2, 3), SubSeq(Yaml, 2, 5)} :
      LET start == me.session_name_general \o <<"_">>
          stem == SubSeq(file, 1, Len(file) - Len(extension) - 1)
      IN /\ EndsWith(file, extension)
         /\ Len(file) >= Len(extension) + 1
         /\ StartsWith(stem, start)
         /\ WordPlus(SubSeq(stem, Len(start) + 1, Len(stem)))

\* remove_target: ^bentoml_{name_clean}_\w+_{suffix}$
TargetBySuffix(deployment_name, me) ==
    LET start == Bentoml \o <<"_">> \o me.name_clean \o <<"_">>
        end == <<"_">> \o me.suffix
    IN /\ StartsWith(deployment_name, start) /\ EndsWith(deployment_name, end)
       /\ Len(deployment_name) > Len(start) + Len(end)
       /\ WordPlus(SubSeq(deployment_name, Len(start) + 1,
                          Len(deployment_name) - Len(end)))

\* remove_target: ^bentoml_{name_clean}_{stage_clean}_\w+$
TargetByStage(deployment_name, me) ==
    LET start == me.session_name_general \o <<"_">>
    IN /\ StartsWith(deployment_name, start)
       /\ WordPlus(SubSeq(deployment_name, Len(start) + 1, Len(deployment_name)))

\* The files or targets remove_dag and remove_target take for the criteria.
EntriesFound(items, me, kind, by) ==
    {e \in items :
       /\ e.kind = kind
       /\ \/ "suffix" \in by /\ IF kind = "dag" THEN DagBySuffix(e.label, me)
                                ELSE TargetBySuffix(e.label, me)
          \/ "stage" \in by /\ IF kind = "dag" THEN DagByStage(e.label, me)
                               ELSE TargetByStage(e.label, me)}

\* The request of the behaviour: the third deployment.
Requesters ==
    {Requester(name, stage, version, 3) :
       name \in TenantNames, stage \in TenantStages, version \in Versions}

Took(me, found) ==
    /\ tenancy' = [items |-> tenancy.items \ found, removed |-> found, me |-> me]
    /\ pc' = "isolated"
    /\ UNCHANGED <<removal, started, DEFAULT_ARGS, named, racing, lost,
                   prometheus, targets, report, handed, commands, dags, probe,
                   port_probe, runtime_env, env_vars, containers, images,
                   volumes, sessions, envs, self, stopped, response, deploys,
                   before, stoppedOld, justRemoved, sequence, stop_args,
                   removed, undeployed>>

\* _stop_model_server of the session backend, killing: by version (undeploy),
\* by stage, or by stage and version (the end of a deploy).
TenantStopSessions ==
    /\ pc = "isolation"
    /\ \E me \in Requesters :
       \E find_by \in {{"version"}, {"stage"}, {"stage", "version"}} :
          Took(me, SessionsFound(tenancy.items, me, find_by, me.session_name))

\* _delete_env_if_exists, for the request's own environment (port in use) or
\* for the environment of a stopped session, which is listed or not; the
\* request's own environment has been created or not.
TenantDeleteEnvs ==
    /\ pc = "isolation"
    /\ \E me \in Requesters :
       \E specific_prefix \in
            {me.prefix} \cup {s.label : s \in {e \in tenancy.items : e.kind = "env"}} :
       \E exclude \in {"", me.prefix} :
       \E own \in {{}, {[kind |-> "env", label |-> me.prefix, model |-> me.name,
                        version |-> me.version, stage |-> me.stage]}} :
          Took(me, EnvsFound(tenancy.items \cup own, me, exclude, specific_prefix))

\* AirflowDeployment.deploy_model: remove_dag(by=['suffix', 'stage']).
TenantRemoveDags ==
    /\ pc = "isolation"
    /\ \E me \in Requesters :
          Took(me, EntriesFound(tenancy.items, me, "dag", {"suffix", "stage"}))

\* PrometheusDeployment.deploy_model: remove_target(by=['suffix', 'stage']).
TenantRemoveTargets ==
    /\ pc = "isolation"
    /\ \E me \in Requesters :
          Took(me, EntriesFound(tenancy.items, me, "target", {"suffix", "stage"}))

\* Two deployments of different models are there, each with what it left in
\* the backends; the sessions carry the variables the listing asks for.
InitIsolation ==
    /\ runtime_env = "tmux"
    /\ env_vars = {"model_port", "model_workers"}
    /\ containers = {} /\ images = {} /\ volumes = {}
    /\ sessions = {} /\ envs = {}
    /\ pc = "isolation" /\ self = NoSelf /\ stopped = << >>
    /\ response = NoResponse /\ deploys = 0
    /\ before = {} /\ stoppedOld = {} /\ justRemoved = {}
    /\ sequence = << >> /\ stop_args = NoStopArgs /\ removed = << >>
    /\ undeployed = << >>
    /\ removal = NoRemoval
    /\ started = << >>
    /\ DEFAULT_ARGS = [port |-> STANDARD_PORT]
    /\ named = << >>
    /\ \E n1 \in TenantNames : \E n2 \in TenantNames \ {n1} :
       \E s1 \in TenantStages, s2 \in TenantStages,
          v1 \in Versions, v2 \in Versions :
         tenancy = [items |-> Tenant(n1, s1, v1, 1) \cup Tenant(n2, s2, v2, 2),
                    removed |-> {}, me |-> NoSelf]
    /\ probe = NoProbe /\ port_probe = NoPortProbe
    /\ dags = {} /\ commands = NoCommands /\ handed = NoHandOff
    /\ report = NoReport
    /\ targets = {} /\ lost = {}
    /\ prometheus = [p \in Operations |-> NoOperation]
    /\ racing = [p \in Operations |-> NoRacer]

NextIsolation ==
    \/ TenantStopSessions
    \/ TenantDeleteEnvs
    \/ TenantRemoveDags
    \/ TenantRemoveTargets

SpecIsolation == InitIsolation /\ [][NextIsolation]_vars

\* ------------------------------------------------- the start arguments
\* The args of a start request: left out (None), or a dict over these keys.
ArgDicts ==
    {<< >>, [port |-> STANDARD_PORT + 1], [workers |-> 2],
     [port |-> STANDARD_PORT + 1, workers |-> 2]}
RequestArgs ==
    {[given |-> FALSE, args |-> << >>]} \cup
    {[given |-> TRUE, args |-> d] : d \in ArgDicts}

\* A copy of the dict with the entries of another laid over it.
Overlaid(d, other) ==
    [k \in DOMAIN d \cup DOMAIN other |->
       IF k \in DOMAIN other THEN other[k] ELSE d[k]]

\* dict.update(other): the dict itself afterwards.
DictUpdate(d, other) == Overlaid(d, other)

\* start: DEFAULT_ARGS.update(model_content.args or dict()), then
\* deploy_model(args=DEFAULT_ARGS).
StartArgs ==
    /\ pc = "args" /\ Len(started) < MaxDeploys
    /\ \E model_content \in RequestArgs :
         /\ DEFAULT_ARGS' =
              DictUpdate(DEFAULT_ARGS,
                         IF model_content.given THEN model_content.args ELSE << >>)
         /\ started' = Append(started, [model_content |-> model_content,
                                        args |-> DEFAULT_ARGS'])
    /\ UNCHANGED <<removal, tenancy, named, racing, lost, prometheus, targets,
                   report, handed, commands, dags, probe, port_probe,
                   runtime_env, env_vars, containers, images, volumes,
                   sessions, envs, pc, self, stopped, response, deploys,
                   before, stoppedOld, justRemoved, sequence, stop_args,
                   removed, undeployed>>

InitArgs ==
    /\ runtime_env \in RuntimeEnv
    /\ env_vars = {}
    /\ containers = {} /\ images = {} /\ volumes = {}
    /\ sessions = {} /\ envs = {}
    /\ pc = "args" /\ self = NoSelf /\ stopped = << >>
    /\ response = NoResponse /\ deploys = 0
    /\ before = {} /\ stoppedOld = {} /\ justRemoved = {}
    /\ sequence = << >> /\ stop_args = NoStopArgs /\ removed = << >>
    /\ undeployed = << >>
    /\ removal = NoRemoval
    /\ named = << >> /\ tenancy = NoTenancy
    /\ started = << >>
    /\ DEFAULT_ARGS = [port |-> STANDARD_PORT]
    /\ probe = NoProbe /\ port_probe = NoPortProbe
    /\ dags = {} /\ commands = NoCommands /\ handed = NoHandOff
    /\ report = NoReport
    /\ targets = {} /\ lost = {}
    /\ prometheus = [p \in Operations |-> NoOperation]
    /\ racing = [p \in Operations |-> NoRacer]

NextArgs == StartArgs

SpecArgs == InitArgs /\ [][NextArgs]_vars

\* ------------------------------- _start_model_server with existing sessions
\* _start_model_server(server, args, existing_sessions, raise_error=False) on
\* its own, as deploy_model calls it after _create_env_from_model and the
\* stop of the old sessions: on the port-in-use branch, which deletes the
\* environment of the request first, or from the except branch. The list
\* holds sessions of the server, each stopped with Ctrl-C.
TmuxRelaunch ==
    /\ pc = "relaunch" /\ runtime_env = "tmux"
    /\ \E model_content \in Requests :
       \E existing \in SUBSET sessions :
       \E at \in {"port_check", "health_check"} :
       \E healthy \in BOOLEAN :
         \E me \in {NewDeployment(model_content, MaxInstances + 1)} :
         \E own \in {DeploymentName(me.name, me.stage, me.suffix)} :
         \E halted \in {{IF s \in existing
                        THEN [s EXCEPT !.attached_pane.status = "exited",
                                       !.attached_pane.healthy = FALSE]
                        ELSE s : s \in sessions}} :
         \E existing_sessions \in
              {ListNewestFirst({s \in halted : s.id \in Ids(existing)})} :
         \E r \in {TmuxRestart(halted, me, existing_sessions, FALSE, healthy)} :
            /\ self' = me
            /\ envs' = IF at = "port_check"
                       THEN DeleteEnvIfExists(envs \cup {own}, me, << >>, own)
                       ELSE envs \cup {own}
            /\ sessions' = r.sessions
            /\ stoppedOld' = Ids(existing)
            /\ justRemoved' = Ids(sessions) \ Ids(r.sessions)
            /\ response' =
                 IF r.raised # ""
                 THEN Resp(r.raised, 500, "no attribute 'attached_pane'", FALSE, at)
                 ELSE IF at = "port_check"
                 THEN Resp("HTTPException", 502, "Port is already in use", FALSE, at)
                 ELSE Resp("HTTPException", 500, "Could not deploy service", TRUE, at)
    /\ before' = Instances
    /\ pc' = "relaunched"
    /\ UNCHANGED <<removal, started, DEFAULT_ARGS, tenancy, named, racing,
                   lost, prometheus, targets, report, handed, commands, dags,
                   port_probe, probe, undeployed, stop_args, removed,
                   runtime_env, env_vars, containers, images, volumes,
                   stopped, deploys, sequence>>

InitRelaunch == Found /\ runtime_env = "tmux" /\ dags = {} /\ pc = "relaunch"

NextRelaunch == TmuxRelaunch

SpecRelaunch == InitRelaunch /\ [][NextRelaunch]_vars

\* ------------------------------------------- remove_target on a list
\* Longest list of targets that is tried.
MaxTargets == 3

\* An entry of the targets file: a dict with a deployment_name label, a dict
\* whose labels have no deployment_name, a dict without labels, or something
\* that is not a dict.
Entry(kind, deployment_name) == [kind |-> kind, deployment_name |-> deployment_name]

EntryPool ==
    {Entry("target", BaseIdentity(<<"a">>, stage, SuffixNo(n)).deployment_name) :
       stage \in TenantStages, n \in 1..2}
    \cup {Entry("target", BaseIdentity(<<"a", "b">>, <<"S", "t", "a", "g", "i", "n", "g">>,
                                       SuffixNo(1)).deployment_name),
          Entry("other_labels", << >>), Entry("no_labels", << >>),
          Entry("not_a_dict", << >>)}

\* isinstance(target, dict) and 'deployment_name' in target.get('labels', {})
Labelled(target) ==
    target.kind # "not_a_dict" /\ target.kind \notin {"no_labels", "other_labels"}

\* remove_by(by_regex, by_name): the entries to delete, in the order of the
\* list; criterion is "suffix", "stage" or "name".
RECURSIVE RemoveBy(_, _, _, _)
RemoveBy(list, criterion, me, name) ==
    IF list = << >> THEN << >>
    ELSE (IF ~Labelled(Head(list)) THEN << >>
          ELSE IF \/ criterion = "suffix"
                     /\ TargetBySuffix(Head(list).deployment_name, me)
                  \/ criterion = "stage"
                     /\ TargetByStage(Head(list).deployment_name, me)
                  \/ criterion = "name" /\ Head(list).deployment_name = name
          THEN <<Head(list)>> ELSE << >>)
         \o RemoveBy(Tail(list), criterion, me, name)

\* target not in to_delete
NotIn(target, to_delete) == \A i \in 1..Len(to_delete) : to_delete[i] # target

\* A filter that also drops what is not a dict.
RECURSIVE KeptDicts(_, _)
KeptDicts(list, to_delete) ==
    IF list = << >> THEN << >>
    ELSE (IF Head(list).kind # "not_a_dict" /\ NotIn(Head(list), to_delete)
          THEN <<Head(list)>> ELSE << >>)
         \o KeptDicts(Tail(list), to_delete)

\* [target for target in self.targets if target not in to_delete]
RECURSIVE Kept(_, _)
Kept(list, to_delete) ==
    IF list = << >> THEN << >>
    ELSE (IF NotIn(Head(list), to_delete) THEN <<Head(list)>> ELSE << >>)
         \o Kept(Tail(list), to_delete)

\* remove_target(by, name) on self.targets.
RemoveTargetFrom(list, me, by, name) ==
    Kept(list,
         (IF "suffix" \in by THEN RemoveBy(list, "suffix", me, name) ELSE << >>)
         \o (IF "stage" \in by THEN RemoveBy(list, "stage", me, name) ELSE << >>)
         \o (IF "name" \in by THEN RemoveBy(list, "name", me, name) ELSE << >>))

\* The objects whose remove_target is called: model a, for a stage, with the
\* suffix of an entry or a new one.
Removers ==
    {Requester(<<"a">>, stage, "1", n) : stage \in TenantStages, n \in {1, 3}}

\* One remove_target call; by=['name'] comes with a name.
RemoveTargetCall ==
    /\ pc = "remove_target"
    /\ \E me \in Removers :
       \E by \in SUBSET {"suffix", "stage", "name"} :
       \E name \in IF "name" \in by
                   THEN {e.deployment_name : e \in EntryPool} \ {<< >>}
                   ELSE {<< >>} :
          removal' = [done |-> TRUE, before |-> removal.before,
                      after |-> RemoveTargetFrom(removal.before, me, by, name),
                      me |-> me, by |-> by, name |-> name]
    /\ pc' = "removed_target"
    /\ UNCHANGED <<started, DEFAULT_ARGS, tenancy, named, racing, lost,
                   prometheus, targets, report, handed, commands, dags,
                   probe, port_probe, runtime_env, env_vars, containers,
                   images, volumes, sessions, envs, self, stopped, response,
                   deploys, before, stoppedOld, justRemoved, sequence,
                   stop_args, removed, undeployed>>

InitRemoveTarget ==
    /\ runtime_env = "docker"
    /\ env_vars = {}
    /\ containers = {} /\ images = {} /\ volumes = {}
    /\ sessions = {} /\ envs = {}
    /\ pc = "remove_target" /\ self = NoSelf /\ stopped = << >>
    /\ response = NoResponse /\ deploys = 0
    /\ before = {} /\ stoppedOld = {} /\ justRemoved = {}
    /\ sequence = << >> /\ stop_args = NoStopArgs /\ removed = << >>
    /\ undeployed = << >>
    /\ named = << >> /\ tenancy = NoTenancy
    /\ started = << >>
    /\ DEFAULT_ARGS = [port |-> STANDARD_PORT]
    /\ \E list \in UNION {[1..n -> EntryPool] : n \in 0..MaxTargets} :
         removal = [NoRemoval EXCEPT !.before = list]
    /\ probe = NoProbe /\ port_probe = NoPortProbe
    /\ dags = {} /\ commands = NoCommands /\ handed = NoHandOff
    /\ report = NoReport
    /\ targets = {} /\ lost = {}
    /\ prometheus = [p \in Operations |-> NoOperation]
    /\ racing = [p \in Operations |-> NoRacer]

NextRemoveTarget == RemoveTargetCall

SpecRemoveTarget == InitRemoveTarget /\ [][NextRemoveTarget]_vars

\* ---------------------------------- _stop_model_server with an exclusion
\* One _stop_model_server call of the container backend with any criteria,
\* removing or not, with a container name excluded or none.
DockerStopExcluding ==
    /\ pc = "stop_excluding" /\ runtime_env = "docker"
    /\ \E identity \in Identities, find_by \in StopCriteria,
          remove_container \in BOOLEAN, failAt \in {0, 1} :
       \E exclude \in {<< >>} \cup {c.name : c \in containers} :
       \E me \in {[name |-> identity.name, version |-> identity.version,
                   stage |-> identity.stage, suffix |-> MaxInstances + 1,
                   port |-> STANDARD_PORT]} :
       \E r \in {DockerStopModelServer(Docker, me, find_by, remove_container,
                                      exclude, failAt)} :
            /\ self' = me
            /\ stop_args' = [find_by |-> find_by, remove |-> remove_container,
                             exclude |-> exclude]
            /\ containers' = r.containers
            /\ images' = r.images
            /\ volumes' = r.volumes
            /\ stopped' = r.stopped_containers
            /\ stoppedOld' = Ids(SeqToSet(r.stopped_containers))
            /\ justRemoved' = Ids(containers) \ Ids(r.containers)
            /\ removed' = r.removed_containers
            /\ response' = IF r.raised # "" THEN StartError(r.raised, "stop")
                           ELSE NoResponse
    /\ before' = Instances
    /\ pc' = "stopped_excluding"
    /\ UNCHANGED <<removal, started, DEFAULT_ARGS, tenancy, named, racing,
                   lost, prometheus, targets, report, handed, commands, dags,
                   port_probe, runtime_env, env_vars, sessions, envs,
                   deploys, sequence, undeployed, probe>>

InitStopExcluding ==
    Found /\ runtime_env = "docker" /\ dags = {} /\ pc = "stop_excluding"

NextStopExcluding == DockerStopExcluding

SpecStopExcluding == InitStopExcluding /\ [][NextStopExcluding]_vars

\* ------------------------------------------------------------- properties
Done == pc = "idle" /\ response.kind = "return"
Failed == pc = "idle" /\ response.kind \notin {"none", "return"}
RunningIds == {i.id : i \in {j \in Instances : j.running}}
RunningBefore == {i.id : i \in {j \in before : j.running}}
NewInstanceRunning == \E i \in Instances : i.id = self.suffix /\ i.running
SameName(i) == i.name = self.name

\* C1: when the health check of the newly started instance fails, the deploy
\* ends FAILED with exactly the instances stopped by the stop-old step running
\* again: every one restarted, none started that was not running before.
C1_HealthFailureRestoresStopped ==
    (pc = "idle" /\ response.at = "health_check") =>
        /\ response.kind # "return"
        /\ stoppedOld \subseteq RunningIds
        /\ RunningIds \subseteq RunningBefore

\* C2: a deploy that stopped an old instance never ends with old and new both
\* absent, and never ends with a restarted instance failing its own health
\* check, unless the error carries the 'failed to restore' marker.
RestoreMarker == response.detail = "failed to restore"

C2_RestoreFailureIsMarked ==
    (Failed /\ stoppedOld # {}) =>
        /\ (/\ self.suffix \notin Ids(Instances)
            /\ \A i \in Instances : i.id \in stoppedOld => ~(i.running /\ i.healthy))
           => RestoreMarker
        /\ (\E i \in Instances : i.id \in stoppedOld /\ i.running /\ ~i.healthy)
           => RestoreMarker

\* C3: if the port is found in use after the stop-old step, the deploy starts
\* no new instance, restarts every instance it stopped and ends with the 502
\* 'port in use' error.
C3_PortInUseRestoresAnd502 ==
    (pc = "idle" /\ response.at = "port_check") =>
        /\ response.kind = "HTTPException" /\ response.status_code = 502
        /\ self.suffix \notin Ids(Instances)
        /\ stoppedOld \subseteq RunningIds

\* C4: during a deploy no previously existing instance is removed before the
\* new instance has passed its health check (removal happens only in the
\* finalizing step); until then old instances are at most stopped.
C4_NoRemovalBeforeHealthy ==
    [][ (Ids(Instances) \ Ids(Instances')) \ {self.suffix} # {} =>
          /\ pc = "finalize"
          /\ \E i \in Instances : i.id = self.suffix /\ i.running /\ i.healthy ]_vars

\* An old instance was stopped by the stop-old step, kept until the new one
\* was healthy, and removed by the finalizing step.
C4_Witness == Done /\ justRemoved \cap stoppedOld # {}

\* C5: when a deploy reaches DONE the new instance is running and no other
\* instance with the same name and (the same stage or the same version) exists.
C5_DoneLeavesOnlyNew ==
    Done =>
        /\ NewInstanceRunning
        /\ \A i \in Instances :
             (SameName(i) /\ (i.stage = self.stage \/ i.version = self.version))
             => i.id = self.suffix

\* C6 (as claimed): the stop-old step changes only instances with the name and
\* the version of the request, and an instance of the same name and stage but
\* another version is still running when the new instance is started.
C6_StopOldByVersionOnly ==
    /\ pc = "port_check" =>
         \A i \in before : i \notin Instances =>
             SameName(i) /\ i.version = self.version
    /\ pc = "health_check" =>
         \A i \in before :
             (i.running /\ SameName(i) /\ i.stage = self.stage
              /\ i.version # self.version)
             => i.id \in RunningIds

\* C6 (amended): the stop-old step changes only instances with the name of the
\* request and its version or, in the container backend, its stage, and
\* removes none of them; in the session backend an instance of the same name
\* and stage but another version is still running when the new one is started.
C6_StopOldPerBackend ==
    /\ pc = "port_check" =>
         /\ Ids(before) \subseteq Ids(Instances)
         /\ \A i \in before : i \notin Instances =>
              /\ SameName(i)
              /\ \/ i.version = self.version
                 \/ runtime_env = "docker" /\ i.stage = self.stage
    /\ (pc = "health_check" /\ runtime_env = "tmux") =>
         \A i \in before :
             (i.running /\ SameName(i) /\ i.stage = self.stage
              /\ i.version # self.version)
             => i.id \in RunningIds

\* The container backend stopped a running instance of another version that
\* holds the request's stage.
C6_Witness ==
    /\ pc = "port_check" /\ runtime_env = "docker"
    /\ \E i \in before :
         /\ i.running /\ SameName(i) /\ i.stage = self.stage
         /\ i.version # self.version /\ i.id \in stoppedOld
         /\ i.id \notin RunningIds

\* C7: scenario B. With v1 running in staging, a deploy of v2 to staging whose
\* health check fails ends with v1 running, no v2 instance, and an error that
\* includes the captured logs of the failed instance.
ScenarioB(old) ==
    /\ before = {old}
    /\ SameName(old) /\ old.version = "1" /\ old.stage = "Staging"
    /\ old.running /\ old.healthy
    /\ self.version = "2" /\ self.stage = "Staging"

C7_ScenarioB ==
    \A old \in before :
        (pc = "idle" /\ response.at = "health_check" /\ ScenarioB(old)) =>
            /\ old.id \in RunningIds
            /\ self.suffix \notin Ids(Instances)
            /\ response.logs

\* C8 (as claimed): scenario C. After v1 was deployed to production, a
\* successful deploy of v1 to staging on another port leaves both running.
ScenarioC(old) ==
    /\ SameName(old) /\ old.version = self.version
    /\ old.stage = "Production" /\ self.stage = "Staging"
    /\ old.running /\ old.healthy /\ old.port # self.port

C8_ScenarioCBothCoexist ==
    \A old \in before :
        (Done /\ ScenarioC(old)) => NewInstanceRunning /\ old.id \in RunningIds

\* The listing finds the instances this backend starts: always for containers,
\* for sessions only with the two variables it asks for in their environment.
Listed == runtime_env = "docker" \/ {"model_port", "model_workers"} \subseteq env_vars

\* C8 (amended): in scenario C the staging instance is running and, wherever
\* the backend's listing reports the production instance, that instance is
\* gone: the by-version match removes the instance in the other stage.
C8_ScenarioCVersionSupersedes ==
    \A old \in before :
        (Done /\ ScenarioC(old)) =>
            /\ NewInstanceRunning
            /\ Listed => old.id \notin Ids(Instances)
            /\ ~Listed => old.id \in RunningIds

C8_Witness ==
    \E old \in before :
        Done /\ ScenarioC(old) /\ Listed /\ old.id \notin Ids(Instances)

\* C9: after any sequence of serialized successful deploys of one name to one
\* stage, exactly one instance of that name and stage exists: the one deployed
\* last, labelled with that stage.
C9_OneInstancePerStage ==
    (pc = "idle" /\ sequence = <<self.name, self.stage>>) =>
        {i.id : i \in {j \in Instances : SameName(j) /\ j.stage = self.stage}}
          = {self.suffix}

\* C10: _stop_model_server with only 'version' never stops or removes an
\* instance of another version, even one in the request's stage; with only
\* 'stage' never one of another stage, even one of the request's version; and
\* either way only instances with the request's name.
Matches(i) ==
    /\ SameName(i)
    /\ stop_args.find_by = {"version"} => i.version = self.version
    /\ stop_args.find_by = {"stage"} => i.stage = self.stage

C10_StopMatchingRespectsCriterion ==
    pc = "stopped" =>
        /\ \A i \in before : i \notin Instances => Matches(i)
        /\ \A i \in before : i.id \in stoppedOld \cup justRemoved => Matches(i)

\* A by-version call stopped something and left a running instance of the
\* same name and stage, but another version, as it was.
C10_Witness ==
    /\ pc = "stopped" /\ stop_args.find_by = {"version"}
    /\ \E i \in before : i.id \in stoppedOld
    /\ \E i \in before :
         /\ i.running /\ SameName(i) /\ i.stage = self.stage
         /\ i.version # self.version /\ i \in Instances

\* C11: in one _stop_model_server call with both criteria an instance that
\* matches by version and by stage is stopped once and removed once: the
\* stopped and the removed list it returns name no instance twice.
NoRepetition(list, key) ==
    \A m, n \in 1..Len(list) : list[m][key] = list[n][key] => m = n

ResultKey == IF runtime_env = "docker" THEN "id" ELSE "used_conda_prefix"

C11_BothCriteriaActOnce ==
    (pc = "stopped" /\ stop_args.find_by = {"version", "stage"}) =>
        NoRepetition(stopped, ResultKey) /\ NoRepetition(removed, ResultKey)

\* A removing call with both criteria met an instance of the request's version
\* and stage next to another match, and returned both as stopped and removed.
C11_Witness ==
    /\ pc = "stopped" /\ stop_args.find_by = {"version", "stage"}
    /\ stop_args.remove
    /\ Len(stopped) >= 2 /\ Len(removed) >= 2
    /\ \E i \in before :
         /\ SameName(i) /\ i.version = self.version /\ i.stage = self.stage
         /\ i.id \in stoppedOld /\ i.id \in justRemoved

\* C12: an undeploy of (name, version) that succeeds has stopped and removed
\* every instance with that name and version, and any undeploy leaves every
\* instance of the name with another version as it was, one holding the same
\* stage included.
Undeployed == pc = "idle" /\ response.at = "undeploy"

Targeted(i) == SameName(i) /\ i.version = self.version

C13_NotFoundIffNoMatch ==
    Undeployed =>
        (response.status_code = 404 <=> ~ \E i \in before : Targeted(i))

\* C14: an undeploy of the same (name, version) right after a successful one
\* returns 404, changes no instance and raises no other error.
C14_SecondUndeployNotFound ==
    (Undeployed /\ undeployed = <<self.name, self.version, 2>>) =>
        /\ response.kind = "HTTPException" /\ response.status_code = 404
        /\ Instances = before
        /\ justRemoved = {} /\ stoppedOld = {}

\* The second undeploy ran while another instance of the name was still there.
C14_Witness ==
    /\ Undeployed /\ undeployed = <<self.name, self.version, 2>>
    /\ response.status_code = 404
    /\ \E i \in Instances : SameName(i)

\* C15: a deploy of a (name, version) the repository does not hold fails
\* without side effect: every instance is as it was before the request and
\* nothing was created for the attempt.
ModelNotFound == pc = "idle" /\ response.detail = "model_not_found"

NothingCreated ==
    /\ self.suffix \notin Ids(Instances)
    /\ self.suffix \notin volumes
    /\ images \cap ImageTags(self.suffix) = {}
    /\ DeploymentName(self.name, self.stage, self.suffix) \notin envs

C15_ModelNotFoundNoSideEffect ==
    ModelNotFound => Instances = before /\ NothingCreated

\* C16: when an image build, the provisioning of the environment or the start
\* of the container or session fails, every instance the deploy had stopped is
\* running again when the error is returned.
StartFailures == {"build_error_base", "build_error_fix", "volume_error",
                  "run_error", "timeout", "killed"}

C16_StartFailureRestoresStopped ==
    (Failed /\ response.detail \in StartFailures) => stoppedOld \subseteq RunningIds

\* C17: after a deploy that failed at or after the start of the new instance
\* (run failure or failed health check) nothing made for the attempt is left:
\* no container or session, no volume, no image, no environment.
C17_FailedAttemptLeavesNothing ==
    (Failed /\ (response.detail = "run_error" \/ response.at = "health_check"))
        => NothingCreated

\* C18: a failure to clean up after a superseded or undeployed instance (its
\* shared volume cannot be deleted) does not fail the deploy or undeploy.
C18_CleanupFailureNotFatal ==
    (pc = "idle" /\ response.at \in {"finalize", "undeploy"}) =>
        response.detail # "Could not delete shared volume"

\* C19 (as claimed): the health probe never raises, returns false after
\* exactly max_retries attempts when the endpoint never returns 200, and
\* returns true as soon as an attempt gets a 200.
Returned == probe.result \in {"True", "False"}

Is200(answer) == answer.kind = "response" /\ answer.status_code = 200

Never200 == \A k \in DOMAIN probe.endpoint : ~Is200(probe.endpoint[k])

C19_ProbeExactlyMaxRetries ==
    /\ probe.result \in {"none", "pending", "True", "False"}
    /\ (Returned /\ Never200) =>
         probe.result = "False" /\ probe.attempts = probe.retries
    /\ (Returned /\ Is200(probe.endpoint[probe.attempts])) => probe.result = "True"

\* C19 (amended): the probe never raises and stops within retries + 1
\* attempts; when the endpoint never returns 200 it returns false, after
\* exactly retries + 1 attempts if every attempt ended in an exception, and
\* otherwise at the first attempt that got a response; it returns true as soon
\* as an attempt gets a 200.
C19_ProbeWithinRetriesPlusOne ==
    /\ probe.result \in {"none", "pending", "True", "False"}
    /\ probe.attempts <= probe.retries + 1
    /\ (Returned /\ Never200) =>
         /\ probe.result = "False"
         /\ \/ /\ probe.attempts = probe.retries + 1
               /\ \A k \in 1..probe.attempts : probe.endpoint[k].kind = "exception"
            \/ /\ probe.endpoint[probe.attempts].kind = "response"
               /\ \A k \in 1..(probe.attempts - 1) :
                    probe.endpoint[k].kind = "exception"
    /\ (Returned /\ Is200(probe.endpoint[probe.attempts])) => probe.result = "True"

\* A probe with retries to spend met exceptions only and gave up.
C19_Witness ==
    /\ probe.result = "False" /\ probe.retries >= 2
    /\ probe.attempts = probe.retries + 1
    /\ \A k \in 1..probe.attempts : probe.endpoint[k].kind = "exception"

\* C20: a response other than 200 is retried like a connection error: an
\* endpoint whose first 200 comes within the retry budget, after other
\* responses or errors, is reported healthy.
C20_Non200IsRetried ==
    \A k \in 1..probe.retries :
        (/\ Returned
         /\ Is200(probe.endpoint[k])
         /\ \A j \in 1..(k - 1) : ~Is200(probe.endpoint[j]))
        => probe.result = "True"

\* C21: the port probe makes at most retry attempts, returns false at the
\* first attempt that finds the port unbound, and returns true only when every
\* one of the retry attempts found it bound.
C21_PortProbeBounded ==
    /\ port_probe.attempts <= port_probe.retry
    /\ port_probe.result = "False" =>
         /\ ~port_probe.bound[port_probe.attempts]
         /\ \A k \in 1..(port_probe.attempts - 1) : port_probe.bound[k]
    /\ port_probe.result = "True" =>
         /\ port_probe.attempts = port_probe.retry
         /\ \A k \in 1..port_probe.retry : port_probe.bound[k]
    /\ port_probe.result = "pending" =>
         /\ port_probe.attempts < port_probe.retry
         /\ \A k \in 1..port_probe.attempts : port_probe.bound[k]

\* A probe found the port bound, then unbound, and answered without using the
\* attempts it had left.
C21_Witness ==
    /\ port_probe.result = "False" /\ port_probe.attempts = 2
    /\ port_probe.retry > 2

\* C22: every deploy that has begun reaches a terminal state, DONE or FAILED,
\* in finitely many steps.
C22_DeployTerminates == (pc # "idle") ~> (pc = "idle")

\* A deploy ended after the port probe and the probes of what it restarted.
C22_Witness == Failed /\ response.at = "port_check" /\ stoppedOld # {}


\* The files of dag_location that define a job of this model name and stage.
DefinitionsOf(name, stage) ==
    {f \in dags : f[1][2] = name /\ f[1][3] = stage}

TargetedDags(files, me, by, name) ==
    {f[1] : f \in (IF "suffix" \in by THEN RegexBySuffix(files, me) ELSE {})
                  \cup (IF "stage" \in by THEN RegexByStage(files, me) ELSE {})}
    \cup (IF "name" \in by THEN {name} ELSE {})

RemovedAll(targeted, files, cmds, resp) ==
    /\ \A dag \in targeted : DagFiles(dag) \cap files = {}
    /\ cmds.issued = [dag \in targeted |-> 1]
    /\ resp.kind = "return"

HandedOver == pc = "handled" /\ response.kind = "return" /\ handed.called

\* C23: after a successful undeploy or redeploy no job definition remains
\* under the deployment name of an instance the operation removed.
C23_NoRecordOfRemovedInstance ==
    HandedOver =>
      \A i \in before :
        i.id \in justRemoved =>
          DagFiles(DeploymentName(i.name, i.stage, i.id)) \cap dags = {}

\* C24: the instances handed to the dependent backends are exactly those the
\* primary backend removed, the ones found already stopped included.
C24_HandedExactlyRemoved ==
    HandedOver => Ids(SeqToSet(handed.containers)) = justRemoved


\* C25: the aggregate list always answers with one entry for each backend;
\* the entry of a backend whose listing fails is empty, and the others are
\* the listings of their backends.
C25_ListDegradesPerBackend ==
    pc = "listed" =>
      /\ report.raised = ""
      /\ DOMAIN report.entries = Backends
      /\ \A b \in Backends :
           report.entries[b] = IF b \in report.unavailable THEN << >>
                               ELSE Listing(b)


\* C30: a deploy whose sandbox was not provisioned goes no further: past the
\* provisioning step the environment of the deployment exists.
C30_ProvisioningFailureIsFatal ==
    runtime_env = "tmux" /\ pc # "idle" =>
      DeploymentName(self.name, self.stage, self.suffix) \in envs


\* C28: a write of the targets file can drop an entry of another model that
\* it was not aimed at; it does so only from a list that was loaded before
\* another operation wrote the file, that is when the two are not serialized.
C28_LostUpdateOnlyWhenOverlapping == \A l \in lost : l.stale

\* Both operations are over, and the entry one of them wrote for another
\* model is not in the file the other has written.
C28_Witness ==
    /\ \A p \in Operations : prometheus[p].pc = "idle"
    /\ \E l \in lost, t \in targets :
         /\ l.entry.deployment_name[2] # t.deployment_name[2]
         /\ l.entry \notin targets

\* The containers of a model and stage that are running.
RunningOf(name, stage) ==
    {c \in containers : /\ c.status = "running"
                        /\ c.labels.name = name
                        /\ c.labels.stage = stage}

\* C29: two deploys of one model and stage that run at the same time can both
\* be past the stop-old step before either has started its new instance; no
\* instance of the model and stage is running then, so that nothing keeps
\* the two from going on to bind the same port.
C29_BothPastStopOldBeforeEitherStarts ==
    \A p \in Operations : \A q \in Operations \ {p} :
       /\ racing[p].pc \in {"port_check", "start_new"}
       /\ racing[q].pc \in {"port_check", "start_new"}
       /\ racing[p].me.name = racing[q].me.name
       /\ racing[p].me.stage = racing[q].me.stage
       => RunningOf(racing[p].me.name, racing[p].me.stage) = {}

\* Both deploys have stopped the old instance and found the port free, and
\* are about to run their new container on the same port.
C29_Witness ==
    \E p \in Operations : \E q \in Operations \ {p} :
       /\ racing[p].pc = "start_new" /\ racing[q].pc = "start_new"
       /\ racing[p].me.name = racing[q].me.name
       /\ racing[p].me.stage = racing[q].me.stage
       /\ racing[p].me.port = racing[q].me.port
       /\ racing[p].stopped # << >>

\* One deploy has rolled back and restarted the old instance while the new
\* instance of the other deploy is running.
RollbackRestoredSuperseded ==
    \E p \in Operations : \E q \in Operations \ {p} :
       /\ racing[p].pc = "done" /\ racing[p].response.status_code = 502
       /\ racing[p].stopped # << >>
       /\ racing[q].pc \in {"health_check", "finalize"}
       /\ \E c \in RunningOf(racing[q].me.name, racing[q].me.stage) :
            c.id = racing[p].stopped[1].id
       /\ \E c \in RunningOf(racing[q].me.name, racing[q].me.stage) :
            c.id = Container(racing[q].me).id

\* The second deploy to run its container on the port is refused.
BindRefused ==
    \E p \in Operations : \E q \in Operations \ {p} :
       /\ racing[p].response.at = "start_new"
       /\ racing[p].me.port = racing[q].me.port
       /\ \E c \in RunningOf(racing[q].me.name, racing[q].me.stage) :
            c.id = Container(racing[q].me).id

\* c is s without its non-word characters, in small letters.
CleanedFrom(c, s) ==
    LET kept == {i \in 1..Len(s) : WordCharacter(s[i])}
        rank(i) == Cardinality({j \in kept : j <= i})
    IN /\ Len(c) = Cardinality(kept)
       /\ \A i \in kept :
            /\ \A k \in 1..Len(Capitals) : s[i] = Capitals[k] => c[rank(i)] = Smalls[k]
            /\ (\A k \in 1..Len(Capitals) : s[i] # Capitals[k]) => c[rank(i)] = s[i]

\* The last SuffixLength characters of a string, the extension left out.
SuffixOf(s, extension) ==
    SubSeq(s, Len(s) - extension - SuffixLength + 1, Len(s) - extension)

C32_OtherModelsUntouched ==
    pc = "isolated" => \A e \in tenancy.removed : e.model = tenancy.me.name

\* C10: a stop of sessions by version, or by stage and version, kills sessions
\* of the request's model name only.
C10_StopMatchingSameNameOnly ==
    pc = "isolated" =>
      \A e \in tenancy.removed : e.kind = "session" => e.model = tenancy.me.name

\* C33: every start request runs with the default port 5000 overlaid with its
\* own args and nothing else; a request without args runs with port 5000 only.
C33_ArgsDependOnRequestOnly ==
    \A i \in 1..Len(started) :
       started[i].args =
         Overlaid([port |-> STANDARD_PORT],
                  IF started[i].model_content.given
                  THEN started[i].model_content.args ELSE << >>)

Aimed(target) ==
    /\ target.kind = "target"
    /\ \/ "suffix" \in removal.by
          /\ TargetBySuffix(target.deployment_name, removal.me)
       \/ "stage" \in removal.by
          /\ TargetByStage(target.deployment_name, removal.me)
       \/ "name" \in removal.by /\ target.deployment_name = removal.name

ListedNotExcluded(i) ==
    /\ i.name = self.name
    /\ \/ "version" \in stop_args.find_by /\ i.version = self.version
       \/ "stage" \in stop_args.find_by /\ i.stage = self.stage
    /\ DeploymentName(i.name, i.stage, i.id) # stop_args.exclude

\* C36: every container a removing _stop_model_server call takes away was
\* exited when listed or is in the stopped list of the call, and the stopped
\* list holds the containers that were running when listed and are not
\* excluded, no other.
C36_RemovedOnlyAfterStop ==
    pc = "stopped_excluding" =>
      /\ \A i \in before :
           i.id \in justRemoved => ~i.running \/ i.id \in stoppedOld
      /\ response = NoResponse =>
           stoppedOld = {i.id : i \in {j \in before : j.running /\ ListedNotExcluded(j)}}
      /\ \A i \in before : i.id \in stoppedOld => i.running /\ ListedNotExcluded(i)
      /\ Len(stopped) = Cardinality(stoppedOld)

\* A removing call took away a container it had stopped, and left alone the
\* running container of the same name and stage that it was to exclude.
C36_Witness ==
    /\ pc = "stopped_excluding" /\ stop_args.remove
    /\ \E i \in before : i.id \in justRemoved /\ i.running /\ i.id \in stoppedOld
    /\ \E i \in before : /\ i.running /\ i.id \in RunningIds
                          /\ i.name = self.name /\ i.stage = self.stage
                          /\ "stage" \in stop_args.find_by
                          /\ DeploymentName(i.name, i.stage, i.id) = stop_args.exclude

====
